---- MODULE Spec2Model ----
(***************************************************************************)
(* Model of the combat core of Obelisk (stat_core): damage resolution of a *)
(* DamagePacket against a defending StatBlock, and the resistance helpers. *)
(*                                                                         *)
(* f64 quantities are modelled as exact rationals [n, d] in lowest terms   *)
(* with d > 0, so that equality of two amounts is equality of records.     *)
(***************************************************************************)
EXTENDS Integers, Sequences, FiniteSets, TLC

VARIABLES
    defender,       \* the caller's StatBlock (the `defender` argument)
    packet,         \* the DamagePacket of the last call
    new_defender,   \* the StatBlock returned by the last call
    result,         \* the CombatResult returned by the last call
    draws,          \* the random draws the last call consumed, in order
    pc,             \* "idle" | "returned"
    stages,         \* result.damage_taken after each mitigation stage of the last call
    hits,           \* number of resolve_damage calls made so far
    query,          \* last call made on its own: a resistance helper or an Effect method
    ops,            \* number of effect operations made so far
    statics,        \* the process-wide OnceLock cells GAME_CONSTANTS and DOT_REGISTRY
    threads,        \* per thread, the registry call it is running and what it returned
    accumulator,    \* the StatAccumulator being populated
    applied_mods    \* the (StatType, value) modifiers applied to it, in order

vars == <<defender, packet, new_defender, result, stages, draws, pc, hits, query,
          ops, statics, threads, accumulator, applied_mods>>

\* the variables of a resolve_damage call, the caller's defender apart
call_vars == <<packet, new_defender, result, stages, draws, pc, hits>>

registry_vars == <<statics, threads>>

aggregator_vars == <<accumulator, applied_mods>>

-----------------------------------------------------------------------------
(* Exact rational arithmetic standing for f64 arithmetic.                  *)

Abs(x) == IF x < 0 THEN -x ELSE x

RECURSIVE GCD(_, _)
GCD(a, b) == IF b = 0 THEN a ELSE GCD(b, a % b)

Frac(n, d) ==
    LET s == IF d < 0 THEN -1 ELSE 1
        g == GCD(Abs(n), Abs(d))
    IN  [n |-> (s * n) \div g, d |-> (s * d) \div g]

R(i) == [n |-> i, d |-> 1]

Zero == R(0)
One == R(1)

Add(a, b) == Frac(a.n * b.d + b.n * a.d, a.d * b.d)
Sub(a, b) == Frac(a.n * b.d - b.n * a.d, a.d * b.d)
Mul(a, b) == Frac(a.n * b.n, a.d * b.d)
Div(a, b) == Frac(a.n * b.d, a.d * b.n)
Lt(a, b) == a.n * b.d < b.n * a.d
Le(a, b) == a.n * b.d <= b.n * a.d
Gt(a, b) == Lt(b, a)
Ge(a, b) == Le(b, a)
Min(a, b) == IF Le(a, b) THEN a ELSE b
Max(a, b) == IF Ge(a, b) THEN a ELSE b
\* f64::clamp(lo, hi)
Clamp(x, lo, hi) == IF Lt(x, lo) THEN lo ELSE IF Gt(x, hi) THEN hi ELSE x

-----------------------------------------------------------------------------
(* Game constants: GameConstants::default()                                *)

max_cap == 100
min_value == -200
\* penetration_vs_capped = 0.5
penetration_vs_capped == Frac(1, 2)
damage_constant == 5
scale_factor == 1000

-----------------------------------------------------------------------------
(* defense/resistance.rs                                                   *)

\* (variant) penetration at full strength against a capped resistance too
calculate_effective_resistance_full_pen(resistance, penetration) ==
    LET clamped_resist == Clamp(resistance, R(min_value), R(max_cap))
    IN  Clamp(Sub(clamped_resist, penetration), R(min_value), R(max_cap))

calculate_effective_resistance(resistance, penetration) ==
    LET clamped_resist == Clamp(resistance, R(min_value), R(max_cap))
        effective ==
            IF Ge(clamped_resist, R(max_cap))
            THEN Sub(R(max_cap), Mul(penetration, penetration_vs_capped))
            ELSE Sub(clamped_resist, penetration)
    IN  Clamp(effective, R(min_value), R(max_cap))

\* (variant) the attacker's penetration is not passed on
calculate_resistance_mitigation_no_pen(damage, resistance, penetration) ==
    IF Le(damage, Zero)
    THEN Zero
    ELSE LET effective_resist == calculate_effective_resistance(resistance, Zero)
             damage_mult == Sub(One, Div(effective_resist, R(100)))
         IN  Max(Mul(damage, damage_mult), Zero)

calculate_resistance_mitigation(damage, resistance, penetration) ==
    IF Le(damage, Zero)
    THEN Zero
    ELSE LET effective_resist == calculate_effective_resistance(resistance, penetration)
             mitigation == Div(effective_resist, R(100))
             damage_mult == Sub(One, mitigation)
         IN  Max(Mul(damage, damage_mult), Zero)

-----------------------------------------------------------------------------
(* Enumerations (loot_core/types.rs)                                       *)

DamageType == {"Physical", "Fire", "Cold", "Lightning", "Chaos"}
StatusEffect == {"Freeze", "Chill", "Burn", "Fear", "Slow", "Static", "Poison", "Bleed"}

\* resolution.rs, status_to_config_id
status_to_config_id(status) ==
    CASE status = "Poison" -> "poison"
      [] status = "Bleed" -> "bleed"
      [] status = "Burn" -> "burn"
      [] status = "Freeze" -> "freeze"
      [] status = "Chill" -> "chill"
      [] status = "Static" -> "static"
      [] status = "Fear" -> "fear"
      [] status = "Slow" -> "slow"

-----------------------------------------------------------------------------
(* DoT registry: the configuration installed before combat.  Poison and   *)
(* bleed build up towards a threshold and stack (poison without limit on   *)
(* effectiveness, bleed with reduced effectiveness), burn is chance based  *)
(* and keeps the strongest instance; the other statuses have no entry.     *)

DOT_REGISTRY ==
    [poison |->
        [id |-> "poison", name |-> "Poison", tick_rate |-> Frac(1, 2),
         base_duration |-> R(2), base_damage_percent |-> Frac(1, 5),
         stacking |-> [type |-> "Unlimited"], max_stacks |-> 3,
         application |-> [type |-> "Buildup", threshold |-> R(100)]],
     bleed |->
        [id |-> "bleed", name |-> "Bleed", tick_rate |-> One,
         base_duration |-> R(5), base_damage_percent |-> Frac(7, 10),
         stacking |-> [type |-> "Limited", stack_effectiveness |-> Frac(1, 2)],
         max_stacks |-> 2,
         application |-> [type |-> "Buildup", threshold |-> R(100)]],
     burn |->
        [id |-> "burn", name |-> "Burn", tick_rate |-> Frac(1, 2),
         base_duration |-> R(4), base_damage_percent |-> Frac(1, 2),
         stacking |-> [type |-> "StrongestOnly"], max_stacks |-> 1,
         application |-> [type |-> "Chance"]]]

dot_registry == DOT_REGISTRY

\* DotRegistry::get: Some(config) is <<config>>, None is <<>>
DotRegistry_get(registry, id) ==
    IF id \in DOMAIN registry THEN <<registry[id]>> ELSE <<>>

\* DotRegistry::new: the empty registry
DotRegistry_new == [id \in {} |-> <<>>]

\* self.get(id).map(|c| c.base_damage_percent).unwrap_or(0.0)
get_base_damage_percent(registry, status) ==
    LET found == DotRegistry_get(registry, status_to_config_id(status))
    IN  IF found # <<>> THEN found[1].base_damage_percent ELSE Zero

\* self.get(id).map(|c| c.base_duration).unwrap_or(2.0)
get_base_duration(registry, status) ==
    LET found == DotRegistry_get(registry, status_to_config_id(status))
    IN  IF found # <<>> THEN found[1].base_duration ELSE R(2)

-----------------------------------------------------------------------------
(* Effect (types.rs)                                                       *)

new_ailment(id, name, status, duration, magnitude, dot_dps, tick_rate, stacking, source_id) ==
    [id |-> id, name |-> name, status |-> status, magnitude |-> magnitude,
     dot_dps |-> dot_dps, tick_rate |-> tick_rate, time_until_tick |-> tick_rate,
     stacking |-> stacking, effectiveness |-> One,
     duration_remaining |-> duration, total_duration |-> duration,
     stacks |-> 1, max_stacks |-> 999, source_id |-> source_id]

from_config(config, status, duration, magnitude, dot_dps, source_id) ==
    LET stacking ==
            CASE config.stacking.type = "StrongestOnly" -> [type |-> "StrongestOnly"]
              [] config.stacking.type = "Unlimited" -> [type |-> "Unlimited"]
              [] config.stacking.type = "Limited" ->
                    [type |-> "Limited",
                     stack_effectiveness |-> config.stacking.stack_effectiveness]
        effect == new_ailment(config.id, config.name, status, duration, magnitude,
                              dot_dps, config.tick_rate, stacking, source_id)
    IN  [effect EXCEPT !.max_stacks = config.max_stacks]

\* (variant) a stack is added whatever the count
add_stack_uncapped(effect) == [effect EXCEPT !.stacks = @ + 1]

add_stack(effect) ==
    IF effect.stacks < effect.max_stacks
    THEN [effect EXCEPT !.stacks = @ + 1]
    ELSE effect

\* Effect::new_stat_modifier: the StatModifier payload has no ailment fields
new_stat_modifier(id, name, duration, is_debuff, modifiers, source_id) ==
    [id |-> id, name |-> name, modifiers |-> modifiers, is_debuff |-> is_debuff,
     duration_remaining |-> duration, total_duration |-> duration,
     stacks |-> 1, max_stacks |-> 1, source_id |-> source_id]

\* matches!(self.effect_type, EffectType::Ailment { .. })
is_ailment(effect) == "dot_dps" \in DOMAIN effect

\* while *time_until_tick <= 0.0 && self.duration_remaining > 0.0 { ... }
RECURSIVE tick_loop(_, _, _)
tick_loop(effect, time_until_tick, damage_dealt) ==
    IF Le(time_until_tick, Zero) /\ Gt(effect.duration_remaining, Zero)
    THEN tick_loop(effect,
                   Add(time_until_tick, effect.tick_rate),
                   Add(damage_dealt,
                       Mul(Mul(Mul(effect.dot_dps, effect.tick_rate), R(effect.stacks)),
                           effect.effectiveness)))
    ELSE [time_until_tick |-> time_until_tick, damage_dealt |-> damage_dealt]

\* (variant) at most one tick is emitted per call
tick_single(effect, delta) ==
    LET runs == is_ailment(effect) /\ Gt(effect.dot_dps, Zero)
        time_until_tick == IF runs THEN Sub(effect.time_until_tick, delta) ELSE Zero
        emits == runs /\ Le(time_until_tick, Zero) /\ Gt(effect.duration_remaining, Zero)
        e1 == IF runs
              THEN [effect EXCEPT !.time_until_tick =
                       IF emits THEN Add(time_until_tick, effect.tick_rate)
                       ELSE time_until_tick]
              ELSE effect
    IN  [effect |-> [e1 EXCEPT !.duration_remaining = Sub(@, delta)],
         damage_dealt |->
             IF emits
             THEN Mul(Mul(Mul(effect.dot_dps, effect.tick_rate), R(effect.stacks)),
                      effect.effectiveness)
             ELSE Zero]

\* Effect::tick: the effect after the call and the damage it returns
tick(effect, delta) ==
    LET runs == is_ailment(effect) /\ Gt(effect.dot_dps, Zero)
        ticked == IF runs
                  THEN tick_loop(effect, Sub(effect.time_until_tick, delta), Zero)
                  ELSE [time_until_tick |-> Zero, damage_dealt |-> Zero]
        e1 == IF runs
              THEN [effect EXCEPT !.time_until_tick = ticked.time_until_tick]
              ELSE effect
    IN  [effect |-> [e1 EXCEPT !.duration_remaining = Sub(@, delta)],
         damage_dealt |-> ticked.damage_dealt]

\* (variant) the fallback ailment ticks once a second and stacks freely
create_effect_from_status_unit_tick(status, duration, magnitude, dot_dps, source_id) ==
    LET config_id == status_to_config_id(status)
        found == DotRegistry_get(dot_registry, config_id)
    IN  IF found # <<>>
        THEN from_config(found[1], status, duration, magnitude, dot_dps, source_id)
        ELSE new_ailment(config_id, config_id, status, duration, magnitude, dot_dps,
                         One, [type |-> "Unlimited"], source_id)

\* resolution.rs, create_effect_from_status
create_effect_from_status(status, duration, magnitude, dot_dps, source_id) ==
    LET config_id == status_to_config_id(status)
        found == DotRegistry_get(dot_registry, config_id)
    IN  IF found # <<>>
        THEN from_config(found[1], status, duration, magnitude, dot_dps, source_id)
        ELSE new_ailment(config_id, config_id, status, duration, magnitude, dot_dps,
                         Frac(1, 2), [type |-> "StrongestOnly"], source_id)

-----------------------------------------------------------------------------
(* StatBlock, DamagePacket and CombatResult accessors                      *)

\* StatBlock::resistance
resistance(block, damage_type) ==
    IF damage_type = "Physical" THEN Zero ELSE block.resistances[damage_type]

computed_spell_dodge_chance(block) == block.spell_dodge_chance
computed_block_chance(block) == block.block_chance
computed_block_amount(block) == block.block_amount
computed_max_life(block) == block.max_life

\* StatBlock::life_percent
life_percent(block) ==
    IF Le(block.max_life, Zero)
    THEN Zero
    ELSE Mul(Div(block.current_life, block.max_life), R(100))

\* StatBlock::add_effect: stacking is resolved against the active effect
\* with the same id
WouldDealMore(new, old) ==
    \/ Gt(new.dot_dps, old.dot_dps)
    \/ new.dot_dps = old.dot_dps /\ Gt(new.magnitude, old.magnitude)

RECURSIVE FirstWithIdFrom(_, _, _)
FirstWithIdFrom(effects, id, i) ==
    IF i > Len(effects) THEN 0
    ELSE IF effects[i].id = id THEN i
    ELSE FirstWithIdFrom(effects, id, i + 1)

add_effect(block, effect) ==
    LET i == FirstWithIdFrom(block.effects, effect.id, 1)
    IN  IF i = 0
        THEN [block EXCEPT !.effects = Append(@, effect)]
        ELSE IF effect.stacking.type = "StrongestOnly"
        THEN IF WouldDealMore(effect, block.effects[i])
             THEN [block EXCEPT !.effects[i] = effect]
             ELSE block
        ELSE [block EXCEPT !.effects[i] = add_stack(@)]

\* DamagePacket::penetration
penetration(pkt, damage_type) ==
    CASE damage_type = "Fire" -> pkt.fire_pen
      [] damage_type = "Cold" -> pkt.cold_pen
      [] damage_type = "Lightning" -> pkt.lightning_pen
      [] damage_type = "Chaos" -> pkt.chaos_pen
      [] OTHER -> Zero

\* PendingStatusEffect::calculate_apply_chance
calculate_apply_chance(pending, target_max_health) ==
    IF Le(target_max_health, Zero)
    THEN Zero
    ELSE Clamp(Mul(Div(pending.status_damage, target_max_health),
                   Add(One, pending.apply_chance_increased)),
               Zero, One)

\* CombatResult::new
CombatResult_new ==
    [es_before |-> Zero, life_before |-> Zero, es_after |-> Zero, life_after |-> Zero,
     was_dodged |-> FALSE, was_blocked |-> FALSE, damage_blocked |-> Zero,
     damage_taken |-> <<>>,
     damage_reduced_by_resists |-> Zero, damage_reduced_by_armour |-> Zero,
     damage_reduced_by_physical_dr |-> Zero, damage_prevented_by_evasion |-> Zero,
     triggered_evasion_cap |-> FALSE, damage_reduced_by_dr |-> Zero,
     total_damage |-> Zero, damage_blocked_by_es |-> Zero,
     is_killing_blow |-> FALSE, culled |-> FALSE,
     life_gained_on_kill |-> Zero, mana_gained_on_kill |-> Zero,
     effects_applied |-> <<>>]

\* DamageTaken::new
DamageTaken_new(damage_type, raw, mitigated, final) ==
    [damage_type |-> damage_type, raw_amount |-> raw,
     mitigated_amount |-> mitigated, final_amount |-> final]

-----------------------------------------------------------------------------
(* defense/armour.rs and defense/evasion.rs                                *)

calculate_armour_reduction(armour, damage) ==
    IF Le(armour, Zero) \/ Le(damage, Zero)
    THEN damage
    ELSE LET reduction_ratio ==
                 Div(armour, Add(armour, Mul(R(damage_constant), damage)))
         IN  Mul(damage, Sub(One, reduction_ratio))

calculate_damage_cap(accuracy, evasion) ==
    Div(accuracy, Add(One, Div(evasion, R(scale_factor))))

\* returns <<damage after the cap, damage evaded>>
apply_evasion_cap(accuracy, evasion, damage) ==
    LET cap == calculate_damage_cap(accuracy, evasion)
    IN  IF Gt(damage, cap)
        THEN <<cap, Sub(damage, cap)>>
        ELSE <<damage, Zero>>

-----------------------------------------------------------------------------
(* combat/resolution.rs: resolve_damage_with_rng                           *)
(*                                                                         *)
(* The body works on an environment s:                                     *)
(*   s.mem.arg    the StatBlock behind the `defender` reference            *)
(*   s.mem.local  the StatBlock owned by the local `new_defender`          *)
(*   s.nd         which of the two the name new_defender designates        *)
(*   s.result     the CombatResult under construction                      *)
(*   s.rng, s.used  the random stream and the number of draws taken        *)
(*   s.returned   the function has executed its early return               *)
(*   s.stages     result.damage_taken as it was after each mitigation step *)

NoStages ==
    [after_resist |-> <<>>, after_armour |-> <<>>, after_phys_dr |-> <<>>,
     after_evasion |-> <<>>, after_block |-> <<>>, after_dr |-> <<>>]

\* the value result.damage_taken has at the end of a step
Stage(s, name) == [s EXCEPT !.stages[name] = s.result.damage_taken]

ND(s) == s.mem[s.nd]
SetND(s, block) == [s EXCEPT !.mem[s.nd] = block]

\* rng.gen::<f64>()
NextDraw(s) == s.rng[s.used + 1]
Consume(s) == [s EXCEPT !.used = @ + 1]

RECURSIVE SumFinalFrom(_, _)
SumFinalFrom(damage_taken, i) ==
    IF i > Len(damage_taken) THEN Zero
    ELSE Add(damage_taken[i].final_amount, SumFinalFrom(damage_taken, i + 1))

\* result.damage_taken.iter().map(|d| d.final_amount).sum()
SumFinal(damage_taken) == SumFinalFrom(damage_taken, 1)

\* damage_taken.iter_mut().find(|d| d.damage_type == DamageType::Physical):
\* the index of the first physical entry, 0 when there is none
RECURSIVE FindPhysicalFrom(_, _)
FindPhysicalFrom(damage_taken, i) ==
    IF i > Len(damage_taken) THEN 0
    ELSE IF damage_taken[i].damage_type = "Physical" THEN i
    ELSE FindPhysicalFrom(damage_taken, i + 1)

FindPhysical(damage_taken) == FindPhysicalFrom(damage_taken, 1)

\* (variant) new_defender designates the caller's StatBlock itself
clone_aliasing(defender_arg) ==
    [mem |-> [arg |-> defender_arg, local |-> defender_arg], nd |-> "arg"]

\* let mut new_defender = defender.clone(): new_defender is a fresh StatBlock
clone(defender_arg) ==
    [mem |-> [arg |-> defender_arg, local |-> defender_arg], nd |-> "local"]

\* let mut result = CombatResult::new(); es_before / life_before
Enter(defender_arg, rng) ==
    LET c == clone(defender_arg)
        s0 == [mem |-> c.mem, nd |-> c.nd, result |-> CombatResult_new,
               rng |-> rng, used |-> 0, returned |-> FALSE, stages |-> NoStages]
    IN  [s0 EXCEPT !.result.es_before = ND(s0).current_energy_shield,
                   !.result.life_before = ND(s0).current_life]

\* (variant) a dodge sets the flag but the function carries on
Step0_no_return(s, pkt) ==
    IF pkt.is_spell
    THEN LET dodge_chance == Div(computed_spell_dodge_chance(ND(s)), R(100))
         IN  IF Gt(dodge_chance, Zero)
             THEN IF Lt(NextDraw(s), dodge_chance)
                  THEN [Consume(s) EXCEPT
                           !.result.was_dodged = TRUE,
                           !.result.es_after = ND(s).current_energy_shield,
                           !.result.life_after = ND(s).current_life]
                  ELSE Consume(s)
             ELSE s
    ELSE s

\* Step 0: spell dodge check; a dodge returns at once
Step0(s, pkt) ==
    IF pkt.is_spell
    THEN LET dodge_chance == Div(computed_spell_dodge_chance(ND(s)), R(100))
         IN  IF Gt(dodge_chance, Zero)
             THEN IF Lt(NextDraw(s), dodge_chance)
                  THEN [Consume(s) EXCEPT
                           !.result.was_dodged = TRUE,
                           !.result.es_after = ND(s).current_energy_shield,
                           !.result.life_after = ND(s).current_life,
                           !.returned = TRUE]
                  ELSE Consume(s)
             ELSE s
    ELSE s

\* Step 1: resistance per damage entry
RECURSIVE Step1From(_, _, _)
Step1From(s, pkt, i) ==
    IF i > Len(pkt.damages) THEN s
    ELSE LET final_damage == pkt.damages[i]
             raw == final_damage.amount
             pen == penetration(pkt, final_damage.damage_type)
             resist == resistance(ND(s), final_damage.damage_type)
             after_resist ==
                 IF final_damage.damage_type = "Physical"
                 THEN raw
                 ELSE calculate_resistance_mitigation(raw, resist, pen)
             mitigated == Sub(raw, after_resist)
             s1 == IF Gt(mitigated, Zero)
                   THEN [s EXCEPT !.result.damage_reduced_by_resists = Add(@, mitigated)]
                   ELSE s
             s2 == [s1 EXCEPT !.result.damage_taken =
                        Append(@, DamageTaken_new(final_damage.damage_type, raw,
                                                  Max(mitigated, Zero), after_resist))]
         IN  Step1From(s2, pkt, i + 1)

Step1(s, pkt) ==
    IF s.returned THEN s ELSE Step1From(s, pkt, 1)

\* (variant) armour is applied to the first entry, whatever its type
Step2_first_entry(s) ==
    IF s.returned THEN s ELSE
    IF Len(s.result.damage_taken) > 0 /\ Gt(s.result.damage_taken[1].final_amount, Zero)
    THEN LET phys == s.result.damage_taken[1]
             after_armour == calculate_armour_reduction(ND(s).armour, phys.final_amount)
             armour_reduced == Sub(phys.final_amount, after_armour)
         IN  [s EXCEPT !.result.damage_reduced_by_armour = armour_reduced,
                       !.result.damage_taken[1].mitigated_amount = Add(@, armour_reduced),
                       !.result.damage_taken[1].final_amount = after_armour]
    ELSE s

\* Step 2: armour on the physical entry
Step2(s) ==
    IF s.returned THEN s ELSE
    LET i == FindPhysical(s.result.damage_taken)
    IN  IF i # 0 /\ Gt(s.result.damage_taken[i].final_amount, Zero)
        THEN LET phys == s.result.damage_taken[i]
                 armour == ND(s).armour
                 after_armour == calculate_armour_reduction(armour, phys.final_amount)
                 armour_reduced == Sub(phys.final_amount, after_armour)
             IN  [s EXCEPT !.result.damage_reduced_by_armour = armour_reduced,
                           !.result.damage_taken[i].mitigated_amount = Add(@, armour_reduced),
                           !.result.damage_taken[i].final_amount = after_armour]
        ELSE s

\* (variant) the percentage is taken from the raw physical amount
Step2b_on_raw(s) ==
    IF s.returned THEN s ELSE
    LET phys_dr == Div(Clamp(ND(s).physical_damage_reduction, Zero, R(90)), R(100))
        i == FindPhysical(s.result.damage_taken)
    IN  IF Gt(phys_dr, Zero) /\ i # 0 /\ Gt(s.result.damage_taken[i].final_amount, Zero)
        THEN LET reduced == Mul(s.result.damage_taken[i].raw_amount, phys_dr)
             IN  [s EXCEPT !.result.damage_reduced_by_physical_dr = reduced,
                           !.result.damage_taken[i].mitigated_amount = Add(@, reduced),
                           !.result.damage_taken[i].final_amount = Sub(@, reduced)]
        ELSE s

\* (variant) the percentage is used as stored, without the clamp to 0..90
Step2b_unclamped(s) ==
    IF s.returned THEN s ELSE
    LET phys_dr == Div(ND(s).physical_damage_reduction, R(100))
        i == FindPhysical(s.result.damage_taken)
    IN  IF Gt(phys_dr, Zero) /\ i # 0 /\ Gt(s.result.damage_taken[i].final_amount, Zero)
        THEN LET reduced == Mul(s.result.damage_taken[i].final_amount, phys_dr)
             IN  [s EXCEPT !.result.damage_reduced_by_physical_dr = reduced,
                           !.result.damage_taken[i].mitigated_amount = Add(@, reduced),
                           !.result.damage_taken[i].final_amount = Sub(@, reduced)]
        ELSE s

\* Step 2b: percent physical damage reduction
Step2b(s) ==
    IF s.returned THEN s ELSE
    LET phys_dr == Div(Clamp(ND(s).physical_damage_reduction, Zero, R(90)), R(100))
        i == FindPhysical(s.result.damage_taken)
    IN  IF Gt(phys_dr, Zero) /\ i # 0 /\ Gt(s.result.damage_taken[i].final_amount, Zero)
        THEN LET reduced == Mul(s.result.damage_taken[i].final_amount, phys_dr)
             IN  [s EXCEPT !.result.damage_reduced_by_physical_dr = reduced,
                           !.result.damage_taken[i].mitigated_amount = Add(@, reduced),
                           !.result.damage_taken[i].final_amount = Sub(@, reduced)]
        ELSE s

\* (variant) the evaded amount is taken from the first entry only
Step3_first_type(s, pkt) ==
    IF s.returned THEN s ELSE
    LET total_before_evasion == SumFinal(s.result.damage_taken)
        capped == apply_evasion_cap(pkt.accuracy, ND(s).evasion, total_before_evasion)
        evaded == capped[2]
    IN  IF Gt(evaded, Zero)
        THEN LET s1 == [s EXCEPT !.result.triggered_evasion_cap = TRUE,
                                 !.result.damage_prevented_by_evasion = evaded]
             IN  IF Gt(total_before_evasion, Zero)
                 THEN [s1 EXCEPT !.result.damage_taken[1].mitigated_amount = Add(@, evaded),
                                 !.result.damage_taken[1].final_amount = Sub(@, evaded)]
                 ELSE s1
        ELSE s

\* Step 3: evasion one-shot protection
Step3(s, pkt) ==
    IF s.returned THEN s ELSE
    LET total_before_evasion == SumFinal(s.result.damage_taken)
        evasion == ND(s).evasion
        accuracy == pkt.accuracy
        capped == apply_evasion_cap(accuracy, evasion, total_before_evasion)
        damage_after_evasion == capped[1]
        evaded == capped[2]
    IN  IF Gt(evaded, Zero)
        THEN LET s1 == [s EXCEPT !.result.triggered_evasion_cap = TRUE,
                                 !.result.damage_prevented_by_evasion = evaded]
             IN  IF Gt(total_before_evasion, Zero)
                 THEN LET ratio == Div(damage_after_evasion, total_before_evasion)
                      IN  [s1 EXCEPT !.result.damage_taken =
                              [k \in DOMAIN @ |->
                                  [@[k] EXCEPT
                                      !.mitigated_amount =
                                          Add(@, Mul(s.result.damage_taken[k].final_amount,
                                                     Sub(One, ratio))),
                                      !.final_amount = Mul(@, ratio)]]]
                 ELSE s1
        ELSE s

\* Step 3b: block
BlockRolls(s) == Gt(Div(computed_block_chance(ND(s)), R(100)), Zero)

\* (variant) the block ratio is not limited to 1
Step3b_uncapped(s) ==
    IF s.returned THEN s ELSE
    IF BlockRolls(s)
    THEN LET s1 == Consume(s)
         IN  IF Lt(NextDraw(s), Div(computed_block_chance(ND(s)), R(100)))
             THEN LET block_amount == computed_block_amount(ND(s))
                      s2 == [s1 EXCEPT !.result.was_blocked = TRUE,
                                       !.result.damage_blocked = block_amount]
                      total_pre_block == SumFinal(s2.result.damage_taken)
                  IN  IF Gt(total_pre_block, Zero) /\ Gt(block_amount, Zero)
                      THEN LET block_ratio == Div(block_amount, total_pre_block)
                           IN  [s2 EXCEPT !.result.damage_taken =
                                   [k \in DOMAIN @ |->
                                       [@[k] EXCEPT
                                           !.mitigated_amount =
                                               Add(@, Mul(s2.result.damage_taken[k].final_amount,
                                                          block_ratio)),
                                           !.final_amount =
                                               Sub(@, Mul(@, block_ratio))]]]
                      ELSE s2
             ELSE s1
    ELSE s

Step3b(s) ==
    IF s.returned THEN s ELSE
    IF BlockRolls(s)
    THEN LET s1 == Consume(s)
         IN  IF Lt(NextDraw(s), Div(computed_block_chance(ND(s)), R(100)))
             THEN LET block_amount == computed_block_amount(ND(s))
                      s2 == [s1 EXCEPT !.result.was_blocked = TRUE,
                                       !.result.damage_blocked = block_amount]
                      total_pre_block == SumFinal(s2.result.damage_taken)
                  IN  IF Gt(total_pre_block, Zero) /\ Gt(block_amount, Zero)
                      THEN LET block_ratio == Min(Div(block_amount, total_pre_block), One)
                           IN  [s2 EXCEPT !.result.damage_taken =
                                   [k \in DOMAIN @ |->
                                       [@[k] EXCEPT
                                           !.mitigated_amount =
                                               Add(@, Mul(s2.result.damage_taken[k].final_amount,
                                                          block_ratio)),
                                           !.final_amount =
                                               Sub(@, Mul(@, block_ratio))]]]
                      ELSE s2
             ELSE s1
    ELSE s

\* Step 3c: reduced damage taken, and the final total
Step3c(s) ==
    IF s.returned THEN s ELSE
    LET dr == Div(Clamp(ND(s).reduced_damage_taken, Zero, R(90)), R(100))
        s1 == IF Gt(dr, Zero)
              THEN LET total_pre_dr == SumFinal(s.result.damage_taken)
                       reduced_taken ==
                           [k \in DOMAIN s.result.damage_taken |->
                               [s.result.damage_taken[k] EXCEPT
                                   !.mitigated_amount =
                                       Add(@, Mul(s.result.damage_taken[k].final_amount, dr)),
                                   !.final_amount = Sub(@, Mul(@, dr))]]
                       total_post_dr == SumFinal(reduced_taken)
                   IN  [s EXCEPT !.result.damage_taken = reduced_taken,
                                 !.result.damage_reduced_by_dr =
                                     Sub(total_pre_dr, total_post_dr)]
              ELSE s
    IN  [s1 EXCEPT !.result.total_damage = SumFinal(s1.result.damage_taken)]

\* (variant) the whole hit goes to life; the energy shield is not consulted
Step4_life_only(s) ==
    IF s.returned THEN s ELSE
    LET remaining_damage == s.result.total_damage
        s2 == IF Gt(remaining_damage, Zero)
              THEN SetND(s, [ND(s) EXCEPT !.current_life = Sub(@, remaining_damage)])
              ELSE s
    IN  IF Le(ND(s2).current_life, Zero)
        THEN [SetND(s2, [ND(s2) EXCEPT !.current_life = Zero])
                 EXCEPT !.result.is_killing_blow = TRUE]
        ELSE s2

\* (variant) the death check flags the kill but leaves life where it fell
Step4_no_clamp(s) ==
    IF s.returned THEN s ELSE
    LET total == s.result.total_damage
        es == ND(s).current_energy_shield
        absorbs == Gt(es, Zero) /\ Gt(total, Zero)
        es_absorbed == IF absorbs THEN Min(total, es) ELSE Zero
        remaining_damage == Sub(total, es_absorbed)
        s1 == IF absorbs
              THEN [SetND(s, [ND(s) EXCEPT !.current_energy_shield = Sub(@, es_absorbed)])
                       EXCEPT !.result.damage_blocked_by_es = es_absorbed]
              ELSE s
        s2 == IF Gt(remaining_damage, Zero)
              THEN SetND(s1, [ND(s1) EXCEPT !.current_life = Sub(@, remaining_damage)])
              ELSE s1
    IN  IF Le(ND(s2).current_life, Zero)
        THEN [s2 EXCEPT !.result.is_killing_blow = TRUE]
        ELSE s2

\* Step 4: energy shield first, then life, then the death check
Step4(s) ==
    IF s.returned THEN s ELSE
    LET total == s.result.total_damage
        es == ND(s).current_energy_shield
        absorbs == Gt(es, Zero) /\ Gt(total, Zero)
        es_absorbed == IF absorbs THEN Min(total, es) ELSE Zero
        remaining_damage == Sub(total, es_absorbed)
        s1 == IF absorbs
              THEN [SetND(s, [ND(s) EXCEPT !.current_energy_shield = Sub(@, es_absorbed)])
                       EXCEPT !.result.damage_blocked_by_es = es_absorbed]
              ELSE s
        s2 == IF Gt(remaining_damage, Zero)
              THEN SetND(s1, [ND(s1) EXCEPT !.current_life = Sub(@, remaining_damage)])
              ELSE s1
    IN  IF Le(ND(s2).current_life, Zero)
        THEN [SetND(s2, [ND(s2) EXCEPT !.current_life = Zero])
                 EXCEPT !.result.is_killing_blow = TRUE]
        ELSE s2

\* (variant) any survivor of a culling packet is culled, whatever its life
Step4b_no_threshold(s, pkt) ==
    IF s.returned THEN s ELSE
    IF ~s.result.is_killing_blow /\ Gt(pkt.culling_strike, Zero)
    THEN [SetND(s, [ND(s) EXCEPT !.current_life = Zero])
             EXCEPT !.result.is_killing_blow = TRUE,
                    !.result.culled = TRUE]
    ELSE s

\* Step 4b: culling strike
Step4b(s, pkt) ==
    IF s.returned THEN s ELSE
    IF ~s.result.is_killing_blow /\ Gt(pkt.culling_strike, Zero)
       /\ Gt(life_percent(ND(s)), Zero)
       /\ Le(life_percent(ND(s)), pkt.culling_strike)
    THEN [SetND(s, [ND(s) EXCEPT !.current_life = Zero])
             EXCEPT !.result.is_killing_blow = TRUE,
                    !.result.culled = TRUE]
    ELSE s

\* Step 4c: life / mana on kill, and the final state
Step4c(s, pkt) ==
    IF s.returned THEN s ELSE
    LET s1 == IF s.result.is_killing_blow
              THEN [s EXCEPT !.result.life_gained_on_kill = pkt.life_on_kill,
                             !.result.mana_gained_on_kill = pkt.mana_on_kill]
              ELSE s
    IN  [s1 EXCEPT !.result.es_after = ND(s1).current_energy_shield,
                   !.result.life_after = ND(s1).current_life]

\* (variant) the accumulator is started afresh at every request
BuildupOf_reset(block, status) == Zero

\* status_buildup.entry(effect_type).or_insert(0.0)
BuildupOf(block, status) ==
    IF status \in DOMAIN block.status_buildup
    THEN block.status_buildup[status]
    ELSE Zero

SetBuildup(block, status, value) ==
    [block EXCEPT !.status_buildup =
        [k \in (DOMAIN @) \cup {status} |-> IF k = status THEN value ELSE @[k]]]

\* Step 5: status effect applications
RECURSIVE Step5From(_, _, _, _)
Step5From(s, pkt, target_max_health, i) ==
    IF i > Len(pkt.status_effects_to_apply) THEN s
    ELSE LET pending_status == pkt.status_effects_to_apply[i]
             config_id == status_to_config_id(pending_status.effect_type)
             config == DotRegistry_get(dot_registry, config_id)
             is_buildup == config # <<>> /\ config[1].application.type = "Buildup"
             buildup == Add(BuildupOf(ND(s), pending_status.effect_type),
                            pending_status.status_damage)
             crossed == is_buildup /\ Ge(buildup, config[1].application.threshold)
             s1 == IF is_buildup
                   THEN SetND(s, SetBuildup(ND(s), pending_status.effect_type,
                                  IF crossed
                                  THEN Sub(buildup, config[1].application.threshold)
                                  ELSE buildup))
                   ELSE Consume(s)
             should_apply ==
                 IF is_buildup
                 THEN crossed
                 ELSE Lt(NextDraw(s),
                         calculate_apply_chance(pending_status, target_max_health))
             effect == create_effect_from_status(pending_status.effect_type,
                           pending_status.duration, pending_status.magnitude,
                           pending_status.dot_dps, pkt.source_id)
             s2 == IF should_apply
                   THEN [SetND(s1, add_effect(ND(s1), effect))
                            EXCEPT !.result.effects_applied = Append(@, effect)]
                   ELSE s1
         IN  Step5From(s2, pkt, target_max_health, i + 1)

\* (variant) the chance is measured against the life left after the hit
Step5_current_life(s, pkt) ==
    IF s.returned THEN s ELSE Step5From(s, pkt, ND(s).current_life, 1)

\* let target_max_health = new_defender.computed_max_life(); for pending_status in ...
Step5(s, pkt) ==
    IF s.returned THEN s ELSE Step5From(s, pkt, computed_max_life(ND(s)), 1)

\* The whole function: the environment at the return statement
resolve_damage_with_rng(defender_arg, pkt, rng) ==
    Step5(Step4c(Step4b(Step4(
        Stage(Step3c(
        Stage(Step3b(
        Stage(Step3(
        Stage(Step2b(
        Stage(Step2(
        Stage(Step1(Step0(Enter(defender_arg, rng), pkt), pkt), "after_resist")),
            "after_armour")), "after_phys_dr"), pkt), "after_evasion")),
            "after_block")), "after_dr")), pkt), pkt), pkt)

\* An upper bound on the draws one call takes from the random source
DrawsNeeded(defender_arg, pkt) ==
    (IF pkt.is_spell /\ Gt(computed_spell_dodge_chance(defender_arg), Zero) THEN 1 ELSE 0)
    + (IF Gt(computed_block_chance(defender_arg), Zero) THEN 1 ELSE 0)
    + Cardinality({i \in DOMAIN pkt.status_effects_to_apply :
            LET config == DotRegistry_get(dot_registry,
                              status_to_config_id(pkt.status_effects_to_apply[i].effect_type))
            IN  config = <<>> \/ config[1].application.type # "Buildup"})

-----------------------------------------------------------------------------
(* Inputs                                                                  *)

MaxHits == 2

\* uniform draws in [0, 1)
DrawSet == {Frac(1, 4), Frac(3, 4)}

Block(es, dodge, armour, evasion, phys_dr, dr, block) ==
    [current_life |-> R(100), max_life |-> R(100),
     current_energy_shield |-> R(es),
     status_buildup |-> <<>>, effects |-> <<>>,
     armour |-> R(armour), evasion |-> R(evasion),
     physical_damage_reduction |-> R(phys_dr),
     reduced_damage_taken |-> R(dr),
     resistances |-> [Fire |-> R(50), Cold |-> R(25),
                      Lightning |-> R(100), Chaos |-> R(-50)],
     spell_dodge_chance |-> R(dodge),
     block_chance |-> R(block[1]), block_amount |-> R(block[2])]

\* defenders with an energy shield and spell dodge, over combinations of the
\* mitigation stats (the two percentage reductions: none, one, both, and
\* both beyond their clamp)
MitigationBlocks ==
    { Block(50, 50, armour, evasion, reductions[1], reductions[2], block) :
        armour \in {0, 1000}, evasion \in {0, 1000},
        reductions \in {<<0, 0>>, <<50, 0>>, <<0, 10>>, <<50, 10>>, <<150, 100>>},
        block \in {<<0, 40>>, <<50, 40>>, <<50, 2000>>} }

\* defenders with or without energy shield and spell dodge, bare or armoured
ResourceBlocks ==
    { Block(es, dodge, armour, 0, 0, 0, <<0, 0>>) :
        es \in {0, 50}, dodge \in {0, 50}, armour \in {0, 1000} }

StatBlocks == MitigationBlocks \cup ResourceBlocks

Dmg(damage_type, amount) == [damage_type |-> damage_type, amount |-> R(amount)]

Pending(effect_type, status_damage) ==
    [effect_type |-> effect_type, status_damage |-> R(status_damage),
     duration |-> R(4), magnitude |-> One, dot_dps |-> R(10),
     apply_chance_increased |-> Zero]

\* PendingStatusEffect::new_with_dot
new_with_dot(effect_type, status_damage, duration, magnitude, dot_dps) ==
    [effect_type |-> effect_type, status_damage |-> status_damage,
     duration |-> duration, magnitude |-> magnitude, dot_dps |-> dot_dps,
     apply_chance_increased |-> Zero]

\* damage/calculation.rs, calculate_status_dot_dps
calculate_status_dot_dps(base_dot_percent, status_damage, stats, dot_multiplier) ==
    IF base_dot_percent = Zero
    THEN Zero
    ELSE Mul(Mul(Mul(base_dot_percent, status_damage),
                 Add(One, stats.dot_increased)),
             Add(One, dot_multiplier))

\* damage/calculation.rs, calculate_damage: the request built for one status
\* of a hit that is not critical, as <<pending>>, or <<>> when the status
\* damage is not positive
calculate_damage_status(status, combined_status_damage, stats, dot_multiplier) ==
    IF Gt(combined_status_damage, Zero)
    THEN LET registry == dot_registry
             base_duration == get_base_duration(registry, status)
             duration == Mul(base_duration, Add(One, stats.duration_increased))
             status_damage == Mul(combined_status_damage,
                                  Add(One, stats.status_damage_increased))
             magnitude == Add(One, stats.magnitude)
             base_dot_percent == get_base_damage_percent(registry, status)
             dot_dps == calculate_status_dot_dps(base_dot_percent, status_damage,
                                                 stats, dot_multiplier)
         IN  <<new_with_dot(status, status_damage, duration, magnitude, dot_dps)>>
    ELSE <<>>

\* the attacker's stats for every status, and its global DoT multiplier
AttackerStatusStats ==
    [dot_increased |-> Frac(1, 2), duration_increased |-> Frac(1, 2),
     status_damage_increased |-> Frac(1, 2), magnitude |-> Frac(1, 2)]

AttackerDotMultiplier == Frac(1, 4)

\* pending.apply_chance_increased = skill.status_chance_for(status)
PendingIncreased(effect_type, status_damage, apply_chance_increased) ==
    [Pending(effect_type, status_damage)
        EXCEPT !.apply_chance_increased = apply_chance_increased]

Pkt(damages, accuracy, is_spell, pens, culling_strike, statuses) ==
    [damages |-> damages, accuracy |-> R(accuracy), is_spell |-> is_spell,
     fire_pen |-> R(pens[1]), cold_pen |-> R(pens[2]),
     lightning_pen |-> R(pens[3]), chaos_pen |-> R(pens[4]),
     culling_strike |-> R(culling_strike),
     life_on_kill |-> R(5), mana_on_kill |-> R(3),
     status_effects_to_apply |-> statuses, source_id |-> "attacker"]

NoPen == <<0, 0, 0, 0>>

Packets ==
    { Pkt(<<Dmg("Physical", 100)>>, 2000, FALSE, NoPen, 0, <<>>),
      Pkt(<<Dmg("Fire", 150)>>, 2000, FALSE, NoPen, 0, <<>>),
      Pkt(<<Dmg("Fire", 100), Dmg("Cold", 100)>>, 2000, TRUE, NoPen, 0, <<>>),
      Pkt(<<Dmg("Fire", 1500)>>, 2000, FALSE, <<50, 0, 0, 0>>, 0, <<>>),
      Pkt(<<Dmg("Chaos", 100), Dmg("Lightning", 100)>>, 2000, FALSE, NoPen, 0, <<>>),
      Pkt(<<Dmg("Lightning", 100)>>, 100, TRUE, <<0, 0, 30, 0>>, 90, <<>>),
      Pkt(<<>>, 100, FALSE, NoPen, 0, <<>>),
      Pkt(<<Dmg("Physical", 0), Dmg("Fire", 0)>>, 100, FALSE, NoPen, 0,
          <<Pending("Freeze", 0)>>),
      Pkt(<<Dmg("Physical", 100), Dmg("Fire", 100)>>, 100, TRUE, NoPen, 0,
          <<Pending("Poison", 60), Pending("Bleed", 250)>>),
      Pkt(<<Dmg("Physical", 40), Dmg("Cold", 40)>>, 2000, FALSE, NoPen, 50,
          <<PendingIncreased("Burn", 50, Frac(1, 5)),
            calculate_damage_status("Chill", R(100), AttackerStatusStats,
                                    AttackerDotMultiplier)[1]>>) }

NoPacket == Pkt(<<>>, 0, FALSE, NoPen, 0, <<>>)
NoQuery == [fn |-> "none"]

\* both registries initialized before combat: GAME_CONSTANTS with the
\* defaults, DOT_REGISTRY with the loaded configuration
InstalledStatics ==
    [GAME_CONSTANTS |-> <<"default">>, DOT_REGISTRY |-> <<"loaded">>]

NoThreads == <<>>

NoAccumulator == <<>>

-----------------------------------------------------------------------------
(* The state machine: a caller holding a defender resolves packets against *)
(* it and either adopts the returned StatBlock or drops it.                *)

Init ==
    /\ defender \in StatBlocks
    /\ new_defender = defender
    /\ packet = NoPacket
    /\ result = CombatResult_new
    /\ stages = NoStages
    /\ draws = <<>>
    /\ pc = "idle"
    /\ hits = 0
    /\ query = NoQuery
    /\ ops = 0
    /\ statics = InstalledStatics
    /\ threads = NoThreads
    /\ accumulator = NoAccumulator
    /\ applied_mods = <<>>

\* let (new_defender, result) = resolve_damage(&defender, &packet)
resolve_damage(pkt, rng) ==
    /\ pc = "idle"
    /\ hits < MaxHits
    /\ \E out \in {resolve_damage_with_rng(defender, pkt, rng)} :
           /\ defender' = out.mem.arg
           /\ new_defender' = ND(out)
           /\ result' = out.result
           /\ stages' = out.stages
           /\ draws' = SubSeq(rng, 1, out.used)
    /\ packet' = pkt
    /\ pc' = "returned"
    /\ hits' = hits + 1
    /\ UNCHANGED <<query, ops, registry_vars, aggregator_vars>>

\* defender = new_defender: the returned state is threaded into the next call
AdoptReturned ==
    /\ pc = "returned"
    /\ defender' = new_defender
    /\ packet' = NoPacket
    /\ result' = CombatResult_new
    /\ stages' = NoStages
    /\ draws' = <<>>
    /\ pc' = "idle"
    /\ UNCHANGED <<new_defender, hits, query, ops, registry_vars, aggregator_vars>>

\* the returned state is dropped and the caller keeps its defender
DropReturned ==
    /\ pc = "returned"
    /\ new_defender' = defender
    /\ packet' = NoPacket
    /\ result' = CombatResult_new
    /\ stages' = NoStages
    /\ draws' = <<>>
    /\ pc' = "idle"
    /\ UNCHANGED <<defender, hits, query, ops, registry_vars, aggregator_vars>>

Next ==
    \/ \E pkt \in Packets :
          \E rng \in [1..DrawsNeeded(defender, pkt) -> DrawSet] : resolve_damage(pkt, rng)
    \/ AdoptReturned
    \/ DropReturned

Spec == Init /\ [][Next]_vars

-----------------------------------------------------------------------------
(* The resistance functions called on their own (defense/resistance.rs)    *)

QueryResistances == {-250, -200, -50, 0, 25, 50, 75, 99, 100, 120}
QueryPenetrations == {-50, 0, 10, 25, 30, 50, 100, 150, 300, 400, 700}
QueryDamages == {-10, 0, 100}

InitResistance ==
    /\ defender = Block(0, 0, 0, 0, 0, 0, <<0, 0>>)
    /\ new_defender = defender
    /\ packet = NoPacket
    /\ result = CombatResult_new
    /\ stages = NoStages
    /\ draws = <<>>
    /\ pc = "idle"
    /\ hits = 0
    /\ query = NoQuery
    /\ ops = 0
    /\ statics = InstalledStatics
    /\ threads = NoThreads
    /\ accumulator = NoAccumulator
    /\ applied_mods = <<>>

\* let effective = calculate_effective_resistance(resist, pen)
QueryEffectiveResistance ==
    /\ \E resist \in QueryResistances, pen \in QueryPenetrations :
           query' = [fn |-> "calculate_effective_resistance",
                     resistance |-> R(resist), penetration |-> R(pen),
                     out |-> calculate_effective_resistance(R(resist), R(pen))]
    /\ UNCHANGED <<defender, call_vars, ops, registry_vars, aggregator_vars>>

\* let result = calculate_resistance_mitigation(damage, resist, pen)
QueryResistanceMitigation ==
    /\ \E damage \in QueryDamages, resist \in QueryResistances, pen \in QueryPenetrations :
           query' = [fn |-> "calculate_resistance_mitigation", damage |-> R(damage),
                     resistance |-> R(resist), penetration |-> R(pen),
                     out |-> calculate_resistance_mitigation(R(damage), R(resist), R(pen))]
    /\ UNCHANGED <<defender, call_vars, ops, registry_vars, aggregator_vars>>

NextResistance ==
    \/ QueryEffectiveResistance
    \/ QueryResistanceMitigation

SpecResistance == InitResistance /\ [][NextResistance]_vars

-----------------------------------------------------------------------------
(* The Effect methods called on the effects of one defender (types.rs):    *)
(* effects are applied to it, ticked and given stacks in any order.        *)

MaxOps == 4

TickDeltas == {Frac(1, 4), Frac(5, 4)}

\* <<status, dot_dps, magnitude>> of the effects applied; each lasts 1 second
EffectRequests ==
    { <<"Poison", 10, 1>>, <<"Bleed", 10, 1>>, <<"Burn", 10, 1>>,
      <<"Burn", 20, 1>>, <<"Chill", 0, 1>>, <<"Chill", 0, 2>> }

\* a defender carrying a buff from an ally
InitEffects ==
    /\ defender =
           [Block(0, 0, 0, 0, 0, 0, <<0, 0>>) EXCEPT !.effects =
               <<new_stat_modifier("buff", "Buff", R(1), FALSE,
                     <<[stat |-> "IncreasedLife", value_per_stack |-> R(10),
                        is_more |-> FALSE]>>, "ally")>>]
    /\ new_defender = defender
    /\ packet = NoPacket
    /\ result = CombatResult_new
    /\ stages = NoStages
    /\ draws = <<>>
    /\ pc = "idle"
    /\ hits = 0
    /\ query = NoQuery
    /\ ops = 0
    /\ statics = InstalledStatics
    /\ threads = NoThreads
    /\ accumulator = NoAccumulator
    /\ applied_mods = <<>>

\* defender.add_effect(create_effect_from_status(...))
AddEffect(request) ==
    /\ ops < MaxOps
    /\ \E effect \in {create_effect_from_status(request[1], One, R(request[3]),
                                                R(request[2]), "attacker")} :
           /\ defender' = add_effect(defender, effect)
           /\ query' = [fn |-> "add_effect", effect |-> effect,
                        before |-> defender.effects]
    /\ ops' = ops + 1
    /\ UNCHANGED <<call_vars, registry_vars, aggregator_vars>>

\* let damage_dealt = defender.effects[i].tick(delta)
TickEffect(i, delta) ==
    /\ ops < MaxOps
    /\ i \in DOMAIN defender.effects
    /\ \E out \in {tick(defender.effects[i], delta)} :
           /\ defender' = [defender EXCEPT !.effects[i] = out.effect]
           /\ query' = [fn |-> "tick", index |-> i, before |-> defender.effects[i],
                        delta |-> delta, damage_dealt |-> out.damage_dealt]
    /\ ops' = ops + 1
    /\ UNCHANGED <<call_vars, registry_vars, aggregator_vars>>

\* defender.effects[i].add_stack()
AddStack(i) ==
    /\ ops < MaxOps
    /\ i \in DOMAIN defender.effects
    /\ defender' = [defender EXCEPT !.effects[i] = add_stack(@)]
    /\ query' = [fn |-> "add_stack", index |-> i, before |-> defender.effects[i]]
    /\ ops' = ops + 1
    /\ UNCHANGED <<call_vars, registry_vars, aggregator_vars>>

NextEffects ==
    \/ \E request \in EffectRequests : AddEffect(request)
    \/ \E i \in 1..MaxOps, delta \in TickDeltas : TickEffect(i, delta)
    \/ \E i \in 1..MaxOps : AddStack(i)

SpecEffects == InitEffects /\ [][NextEffects]_vars

-----------------------------------------------------------------------------
(* The configuration registries (config/constants.rs, config/dots.rs):     *)
(* two threads call the init_*, ensure_* and read functions in any order.  *)
(* A OnceLock cell is <<>> while empty and <<value>> once set; set,        *)
(* get_or_init and get are atomic, the file load that precedes a set is a  *)
(* step of its own.                                                        *)

Threads == {"main", "worker"}

MaxCalls == 2

NoReturn == [call |-> "none", result |-> "none"]

\* GameConstants::load_from_path: Ok(constants) as <<constants>>, Err as <<>>
GameConstants_load_from_path(path) ==
    IF path = "constants.toml" THEN <<"file">> ELSE <<>>

\* load_dot_configs: Ok(registry) as <<registry>>, Err as <<>>
load_dot_configs(path) ==
    IF path \in {"dots.toml", "config/dots.toml"} THEN <<"loaded">> ELSE <<>>

ConstantsPaths == {"constants.toml", "missing.toml"}

DotsPaths == {"dots.toml", "broken.toml"}

\* (variant) set stores the value whether or not the cell is full
OnceLock_set_overwrite(cell, value) == [cell |-> <<value>>, ok |-> cell = <<>>]

\* OnceLock::set: Ok(()) and the value stored if the cell was empty, Err and
\* the cell untouched otherwise
OnceLock_set(cell, value) ==
    IF cell = <<>>
    THEN [cell |-> <<value>>, ok |-> TRUE]
    ELSE [cell |-> cell, ok |-> FALSE]

\* OnceLock::get_or_init
OnceLock_get_or_init(cell, value) == IF cell = <<>> THEN <<value>> ELSE cell

\* .get().expect(..): the stored value, or a panic
OnceLock_get_expect(cell) == IF cell = <<>> THEN "panic" ELSE cell[1]

InitRegistry ==
    /\ defender = Block(0, 0, 0, 0, 0, 0, <<0, 0>>)
    /\ new_defender = defender
    /\ packet = NoPacket
    /\ result = CombatResult_new
    /\ stages = NoStages
    /\ draws = <<>>
    /\ pc = "idle"
    /\ hits = 0
    /\ query = NoQuery
    /\ ops = 0
    /\ statics = [GAME_CONSTANTS |-> <<>>, DOT_REGISTRY |-> <<>>]
    /\ threads = [t \in Threads |->
                     [pc |-> "ready", call |-> "none", loaded |-> <<>>,
                      ret |-> NoReturn, done |-> 0]]
    /\ accumulator = NoAccumulator
    /\ applied_mods = <<>>

Ready(t) == threads[t].pc = "ready" /\ threads[t].done < MaxCalls

\* the call of thread t returns (or panics, which ends the thread)
Return(t, call, outcome) ==
    threads' = [threads EXCEPT ![t] =
                   [pc |-> IF outcome = "panic" THEN "panicked" ELSE "ready",
                    call |-> "none", loaded |-> <<>>,
                    ret |-> [call |-> call, result |-> outcome],
                    done |-> @.done + 1]]

\* the `?` after the load: the call goes on with the loaded value
Loaded(t, call, loaded) ==
    threads' = [threads EXCEPT ![t] =
                   [@ EXCEPT !.pc = "loaded", !.call = call, !.loaded = loaded,
                             !.ret = NoReturn]]

\* init_constants: let constants = GameConstants::load_from_path(path)?;
init_constants_load(t, path) ==
    /\ Ready(t)
    /\ LET loaded == GameConstants_load_from_path(path)
       IN  IF loaded = <<>>
           THEN Return(t, "init_constants", "Err_load")
           ELSE Loaded(t, "init_constants", loaded)
    /\ UNCHANGED <<statics, defender, query, ops, call_vars, aggregator_vars>>

\* init_constants: GAME_CONSTANTS.set(constants).map_err(|_| ValidationError(..))
init_constants_set(t) ==
    /\ threads[t].pc = "loaded"
    /\ threads[t].call = "init_constants"
    /\ LET set == OnceLock_set(statics.GAME_CONSTANTS, threads[t].loaded[1])
       IN  /\ statics' = [statics EXCEPT !.GAME_CONSTANTS = set.cell]
           /\ Return(t, "init_constants",
                     IF set.ok THEN "Ok" ELSE "Err_ValidationError")
    /\ UNCHANGED <<defender, query, ops, call_vars, aggregator_vars>>

init_constants_default(t) ==
    /\ Ready(t)
    /\ LET set == OnceLock_set(statics.GAME_CONSTANTS, "default")
       IN  /\ statics' = [statics EXCEPT !.GAME_CONSTANTS = set.cell]
           /\ Return(t, "init_constants_default",
                     IF set.ok THEN "Ok" ELSE "Err_ValidationError")
    /\ UNCHANGED <<defender, query, ops, call_vars, aggregator_vars>>

constants(t) ==
    /\ Ready(t)
    /\ Return(t, "constants", OnceLock_get_expect(statics.GAME_CONSTANTS))
    /\ UNCHANGED <<statics, defender, query, ops, call_vars, aggregator_vars>>

ensure_constants_initialized(t) ==
    /\ Ready(t)
    /\ statics' = [statics EXCEPT !.GAME_CONSTANTS = OnceLock_get_or_init(@, "default")]
    /\ Return(t, "ensure_constants_initialized", "unit")
    /\ UNCHANGED <<defender, query, ops, call_vars, aggregator_vars>>

\* init_dot_registry: let registry = load_dot_configs(path)?;
init_dot_registry_load(t, call, path) ==
    /\ Ready(t)
    /\ LET loaded == load_dot_configs(path)
       IN  IF loaded = <<>>
           THEN Return(t, call, "Err_load")
           ELSE Loaded(t, call, loaded)
    /\ UNCHANGED <<statics, defender, query, ops, call_vars, aggregator_vars>>

\* init_dot_registry: DOT_REGISTRY.set(registry).ok(); Ok(())
init_dot_registry_set(t) ==
    /\ threads[t].pc = "loaded"
    /\ threads[t].call \in {"init_dot_registry", "init_dot_registry_default"}
    /\ LET set == OnceLock_set(statics.DOT_REGISTRY, threads[t].loaded[1])
       IN  /\ statics' = [statics EXCEPT !.DOT_REGISTRY = set.cell]
           /\ Return(t, threads[t].call, "Ok")
    /\ UNCHANGED <<defender, query, ops, call_vars, aggregator_vars>>

init_dot_registry(t, path) == init_dot_registry_load(t, "init_dot_registry", path)

\* init_dot_registry(Path::new("config/dots.toml"))
init_dot_registry_default(t) ==
    init_dot_registry_load(t, "init_dot_registry_default", "config/dots.toml")

\* the value returned by dot_registry() is named as the registry function is
get_dot_registry(t) ==
    /\ Ready(t)
    /\ Return(t, "dot_registry", OnceLock_get_expect(statics.DOT_REGISTRY))
    /\ UNCHANGED <<statics, defender, query, ops, call_vars, aggregator_vars>>

ensure_dot_registry_initialized(t) ==
    /\ Ready(t)
    /\ statics' = [statics EXCEPT !.DOT_REGISTRY = OnceLock_get_or_init(@, "empty")]
    /\ Return(t, "ensure_dot_registry_initialized", "unit")
    /\ UNCHANGED <<defender, query, ops, call_vars, aggregator_vars>>

NextRegistry ==
    \E t \in Threads :
        \/ \E path \in ConstantsPaths : init_constants_load(t, path)
        \/ init_constants_set(t)
        \/ init_constants_default(t)
        \/ constants(t)
        \/ ensure_constants_initialized(t)
        \/ \E path \in DotsPaths : init_dot_registry(t, path)
        \/ init_dot_registry_default(t)
        \/ init_dot_registry_set(t)
        \/ get_dot_registry(t)
        \/ ensure_dot_registry_initialized(t)

SpecRegistry == InitRegistry /\ [][NextRegistry]_vars

-----------------------------------------------------------------------------
(* Stat aggregation (stat_block/aggregator.rs): StatAccumulator,           *)
(* apply_stat_type and the commit apply_to.                                *)

MaxMods == 3

\* loot_core StatType, the variants apply_stat_type matches
StatType == {
    "AddedPhysicalDamage", "AddedFireDamage", "AddedColdDamage",
    "AddedLightningDamage", "AddedChaosDamage", "IncreasedPhysicalDamage",
    "IncreasedFireDamage", "IncreasedColdDamage", "IncreasedLightningDamage",
    "IncreasedElementalDamage", "IncreasedChaosDamage", "IncreasedAttackSpeed",
    "IncreasedCriticalChance", "IncreasedCriticalDamage", "AddedArmour",
    "AddedEvasion", "AddedEnergyShield", "IncreasedArmour",
    "IncreasedEvasion", "IncreasedEnergyShield", "AddedStrength",
    "AddedDexterity", "AddedConstitution", "AddedIntelligence",
    "AddedWisdom", "AddedCharisma", "AddedAllAttributes",
    "AddedLife", "AddedMana", "IncreasedLife",
    "IncreasedMana", "LifeRegeneration", "ManaRegeneration",
    "LifeOnHit", "LifeLeech", "ManaLeech",
    "FireResistance", "ColdResistance", "LightningResistance",
    "ChaosResistance", "AllResistances", "AddedAccuracy",
    "IncreasedAccuracy", "IncreasedMovementSpeed", "IncreasedItemRarity",
    "IncreasedItemQuantity", "PoisonDamageOverTime", "IncreasedPoisonDuration",
    "PoisonMagnitude", "PoisonMaxStacks", "ConvertPhysicalToPoison",
    "ConvertFireToPoison", "ConvertColdToPoison", "ConvertLightningToPoison",
    "ConvertChaosToPoison", "BleedDamageOverTime", "IncreasedBleedDuration",
    "BleedMagnitude", "BleedMaxStacks", "ConvertPhysicalToBleed",
    "ConvertFireToBleed", "ConvertColdToBleed", "ConvertLightningToBleed",
    "ConvertChaosToBleed", "BurnDamageOverTime", "IncreasedBurnDuration",
    "BurnMagnitude", "BurnMaxStacks", "ConvertPhysicalToBurn",
    "ConvertFireToBurn", "ConvertColdToBurn", "ConvertLightningToBurn",
    "ConvertChaosToBurn", "IncreasedFreezeDuration", "FreezeMagnitude",
    "FreezeMaxStacks", "ConvertPhysicalToFreeze", "ConvertFireToFreeze",
    "ConvertColdToFreeze", "ConvertLightningToFreeze", "ConvertChaosToFreeze",
    "IncreasedChillDuration", "ChillMagnitude", "ChillMaxStacks",
    "ConvertPhysicalToChill", "ConvertFireToChill", "ConvertColdToChill",
    "ConvertLightningToChill", "ConvertChaosToChill", "IncreasedStaticDuration",
    "StaticMagnitude", "StaticMaxStacks", "ConvertPhysicalToStatic",
    "ConvertFireToStatic", "ConvertColdToStatic", "ConvertLightningToStatic",
    "ConvertChaosToStatic", "IncreasedFearDuration", "FearMagnitude",
    "FearMaxStacks", "ConvertPhysicalToFear", "ConvertFireToFear",
    "ConvertColdToFear", "ConvertLightningToFear", "ConvertChaosToFear",
    "IncreasedSlowDuration", "SlowMagnitude", "SlowMaxStacks",
    "ConvertPhysicalToSlow", "ConvertFireToSlow", "ConvertColdToSlow",
    "ConvertLightningToSlow"}

\* the f64 fields of StatAccumulator
ScalarFields == {
    "life_flat", "life_increased", "mana_flat",
    "mana_increased", "strength_flat", "dexterity_flat",
    "intelligence_flat", "constitution_flat", "wisdom_flat",
    "charisma_flat", "all_attributes_flat", "armour_flat",
    "armour_increased", "evasion_flat", "evasion_increased",
    "energy_shield_flat", "energy_shield_increased", "fire_resistance",
    "cold_resistance", "lightning_resistance", "chaos_resistance",
    "all_resistances", "physical_damage_flat", "physical_damage_increased",
    "fire_damage_flat", "fire_damage_increased", "cold_damage_flat",
    "cold_damage_increased", "lightning_damage_flat", "lightning_damage_increased",
    "chaos_damage_flat", "chaos_damage_increased", "elemental_damage_increased",
    "attack_speed_increased", "cast_speed_increased", "critical_chance_flat",
    "critical_chance_increased", "critical_multiplier_flat", "fire_penetration",
    "cold_penetration", "lightning_penetration", "chaos_penetration",
    "life_regen_flat", "mana_regen_flat", "life_leech_percent",
    "mana_leech_percent", "life_on_hit", "accuracy_flat",
    "accuracy_increased", "movement_speed_increased", "item_rarity_increased",
    "item_quantity_increased", "weapon_physical_min", "weapon_physical_max",
    "weapon_physical_increased", "weapon_attack_speed", "weapon_crit_chance"}

\* the Vec<f64> fields of StatAccumulator
MoreFields == {
    "life_more", "mana_more", "physical_damage_more",
    "fire_damage_more", "cold_damage_more", "lightning_damage_more",
    "chaos_damage_more"}

\* StatusEffectStats::default
StatusEffectStats_default ==
    [dot_increased |-> Zero, duration_increased |-> Zero, magnitude |-> Zero,
     max_stacks |-> 0]

\* an empty HashMap
HashMap_new == [k \in {} |-> Zero]

\* HashMap insert: the entry of key k becomes v
Put(map, k, v) == [x \in DOMAIN map \cup {k} |-> IF x = k THEN v ELSE map[x]]

\* HashMap entry(k).or_default() / get(k).unwrap_or(default)
GetOr(map, k, default) == IF k \in DOMAIN map THEN map[k] ELSE default

\* StatAccumulator::new: every number 0, every Vec and map empty
StatAccumulator_new ==
    [f \in ScalarFields \cup MoreFields
          \cup {"weapon_elemental_damages", "status_stats", "status_conversions"} |->
        IF f \in ScalarFields THEN Zero
        ELSE IF f \in {"status_stats", "status_conversions"} THEN HashMap_new
        ELSE <<>>]

\* `value as i32`: truncation toward zero
as_i32(value) ==
    IF value.n >= 0 THEN value.n \div value.d ELSE -((-value.n) \div value.d)

add_status_dot(acc, status, value) ==
    LET stats == GetOr(acc.status_stats, status, StatusEffectStats_default)
    IN  [acc EXCEPT !.status_stats =
            Put(@, status, [stats EXCEPT !.dot_increased = Add(@, value)])]

add_status_duration(acc, status, value) ==
    LET stats == GetOr(acc.status_stats, status, StatusEffectStats_default)
    IN  [acc EXCEPT !.status_stats =
            Put(@, status, [stats EXCEPT !.duration_increased = Add(@, value)])]

add_status_magnitude(acc, status, value) ==
    LET stats == GetOr(acc.status_stats, status, StatusEffectStats_default)
    IN  [acc EXCEPT !.status_stats =
            Put(@, status, [stats EXCEPT !.magnitude = Add(@, value)])]

add_status_max_stacks(acc, status, value) ==
    LET stats == GetOr(acc.status_stats, status, StatusEffectStats_default)
    IN  [acc EXCEPT !.status_stats =
            Put(@, status, [stats EXCEPT !.max_stacks = @ + value])]

\* (variant) the conversion entry is overwritten instead of added to
add_conversion_insert(acc, from, to, value) ==
    LET conv == GetOr(acc.status_conversions, to, HashMap_new)
    IN  [acc EXCEPT !.status_conversions = Put(@, to, Put(conv, from, value))]

\* StatAccumulator::add_conversion with StatusConversions::add_conversion
add_conversion(acc, from, to, value) ==
    LET conv == GetOr(acc.status_conversions, to, HashMap_new)
    IN  [acc EXCEPT !.status_conversions =
            Put(@, to, Put(conv, from, Add(GetOr(conv, from, Zero), value)))]

apply_stat_type(acc, stat, value) ==
    CASE stat = "AddedPhysicalDamage" -> [acc EXCEPT !.physical_damage_flat = Add(@, value)]
      [] stat = "AddedFireDamage" -> [acc EXCEPT !.fire_damage_flat = Add(@, value)]
      [] stat = "AddedColdDamage" -> [acc EXCEPT !.cold_damage_flat = Add(@, value)]
      [] stat = "AddedLightningDamage" -> [acc EXCEPT !.lightning_damage_flat = Add(@, value)]
      [] stat = "AddedChaosDamage" -> [acc EXCEPT !.chaos_damage_flat = Add(@, value)]
      [] stat = "IncreasedPhysicalDamage" -> [acc EXCEPT !.physical_damage_increased = Add(@, Div(value, R(100)))]
      [] stat = "IncreasedFireDamage" -> [acc EXCEPT !.fire_damage_increased = Add(@, Div(value, R(100)))]
      [] stat = "IncreasedColdDamage" -> [acc EXCEPT !.cold_damage_increased = Add(@, Div(value, R(100)))]
      [] stat = "IncreasedLightningDamage" -> [acc EXCEPT !.lightning_damage_increased = Add(@, Div(value, R(100)))]
      [] stat = "IncreasedElementalDamage" -> [acc EXCEPT !.elemental_damage_increased = Add(@, Div(value, R(100)))]
      [] stat = "IncreasedChaosDamage" -> [acc EXCEPT !.chaos_damage_increased = Add(@, Div(value, R(100)))]
      [] stat = "IncreasedAttackSpeed" -> [acc EXCEPT !.attack_speed_increased = Add(@, Div(value, R(100)))]
      [] stat = "IncreasedCriticalChance" -> [acc EXCEPT !.critical_chance_increased = Add(@, Div(value, R(100)))]
      [] stat = "IncreasedCriticalDamage" -> [acc EXCEPT !.critical_multiplier_flat = Add(@, Div(value, R(100)))]
      [] stat = "AddedArmour" -> [acc EXCEPT !.armour_flat = Add(@, value)]
      [] stat = "AddedEvasion" -> [acc EXCEPT !.evasion_flat = Add(@, value)]
      [] stat = "AddedEnergyShield" -> [acc EXCEPT !.energy_shield_flat = Add(@, value)]
      [] stat = "IncreasedArmour" -> [acc EXCEPT !.armour_increased = Add(@, Div(value, R(100)))]
      [] stat = "IncreasedEvasion" -> [acc EXCEPT !.evasion_increased = Add(@, Div(value, R(100)))]
      [] stat = "IncreasedEnergyShield" -> [acc EXCEPT !.energy_shield_increased = Add(@, Div(value, R(100)))]
      [] stat = "AddedStrength" -> [acc EXCEPT !.strength_flat = Add(@, value)]
      [] stat = "AddedDexterity" -> [acc EXCEPT !.dexterity_flat = Add(@, value)]
      [] stat = "AddedConstitution" -> [acc EXCEPT !.constitution_flat = Add(@, value)]
      [] stat = "AddedIntelligence" -> [acc EXCEPT !.intelligence_flat = Add(@, value)]
      [] stat = "AddedWisdom" -> [acc EXCEPT !.wisdom_flat = Add(@, value)]
      [] stat = "AddedCharisma" -> [acc EXCEPT !.charisma_flat = Add(@, value)]
      [] stat = "AddedAllAttributes" -> [acc EXCEPT !.all_attributes_flat = Add(@, value)]
      [] stat = "AddedLife" -> [acc EXCEPT !.life_flat = Add(@, value)]
      [] stat = "AddedMana" -> [acc EXCEPT !.mana_flat = Add(@, value)]
      [] stat = "IncreasedLife" -> [acc EXCEPT !.life_increased = Add(@, Div(value, R(100)))]
      [] stat = "IncreasedMana" -> [acc EXCEPT !.mana_increased = Add(@, Div(value, R(100)))]
      [] stat = "LifeRegeneration" -> [acc EXCEPT !.life_regen_flat = Add(@, value)]
      [] stat = "ManaRegeneration" -> [acc EXCEPT !.mana_regen_flat = Add(@, value)]
      [] stat = "LifeOnHit" -> [acc EXCEPT !.life_on_hit = Add(@, value)]
      [] stat = "LifeLeech" -> [acc EXCEPT !.life_leech_percent = Add(@, Div(value, R(100)))]
      [] stat = "ManaLeech" -> [acc EXCEPT !.mana_leech_percent = Add(@, Div(value, R(100)))]
      [] stat = "FireResistance" -> [acc EXCEPT !.fire_resistance = Add(@, value)]
      [] stat = "ColdResistance" -> [acc EXCEPT !.cold_resistance = Add(@, value)]
      [] stat = "LightningResistance" -> [acc EXCEPT !.lightning_resistance = Add(@, value)]
      [] stat = "ChaosResistance" -> [acc EXCEPT !.chaos_resistance = Add(@, value)]
      [] stat = "AllResistances" -> [acc EXCEPT !.all_resistances = Add(@, value)]
      [] stat = "AddedAccuracy" -> [acc EXCEPT !.accuracy_flat = Add(@, value)]
      [] stat = "IncreasedAccuracy" -> [acc EXCEPT !.accuracy_increased = Add(@, Div(value, R(100)))]
      [] stat = "IncreasedMovementSpeed" -> [acc EXCEPT !.movement_speed_increased = Add(@, Div(value, R(100)))]
      [] stat = "IncreasedItemRarity" -> [acc EXCEPT !.item_rarity_increased = Add(@, Div(value, R(100)))]
      [] stat = "IncreasedItemQuantity" -> [acc EXCEPT !.item_quantity_increased = Add(@, Div(value, R(100)))]
      [] stat = "PoisonDamageOverTime" -> add_status_dot(acc, "Poison", Div(value, R(100)))
      [] stat = "IncreasedPoisonDuration" -> add_status_duration(acc, "Poison", Div(value, R(100)))
      [] stat = "PoisonMagnitude" -> add_status_magnitude(acc, "Poison", Div(value, R(100)))
      [] stat = "PoisonMaxStacks" -> add_status_max_stacks(acc, "Poison", as_i32(value))
      [] stat = "ConvertPhysicalToPoison" -> add_conversion(acc, "Physical", "Poison", Div(value, R(100)))
      [] stat = "ConvertFireToPoison" -> add_conversion(acc, "Fire", "Poison", Div(value, R(100)))
      [] stat = "ConvertColdToPoison" -> add_conversion(acc, "Cold", "Poison", Div(value, R(100)))
      [] stat = "ConvertLightningToPoison" -> add_conversion(acc, "Lightning", "Poison", Div(value, R(100)))
      [] stat = "ConvertChaosToPoison" -> add_conversion(acc, "Chaos", "Poison", Div(value, R(100)))
      [] stat = "BleedDamageOverTime" -> add_status_dot(acc, "Bleed", Div(value, R(100)))
      [] stat = "IncreasedBleedDuration" -> add_status_duration(acc, "Bleed", Div(value, R(100)))
      [] stat = "BleedMagnitude" -> add_status_magnitude(acc, "Bleed", Div(value, R(100)))
      [] stat = "BleedMaxStacks" -> add_status_max_stacks(acc, "Bleed", as_i32(value))
      [] stat = "ConvertPhysicalToBleed" -> add_conversion(acc, "Physical", "Bleed", Div(value, R(100)))
      [] stat = "ConvertFireToBleed" -> add_conversion(acc, "Fire", "Bleed", Div(value, R(100)))
      [] stat = "ConvertColdToBleed" -> add_conversion(acc, "Cold", "Bleed", Div(value, R(100)))
      [] stat = "ConvertLightningToBleed" -> add_conversion(acc, "Lightning", "Bleed", Div(value, R(100)))
      [] stat = "ConvertChaosToBleed" -> add_conversion(acc, "Chaos", "Bleed", Div(value, R(100)))
      [] stat = "BurnDamageOverTime" -> add_status_dot(acc, "Burn", Div(value, R(100)))
      [] stat = "IncreasedBurnDuration" -> add_status_duration(acc, "Burn", Div(value, R(100)))
      [] stat = "BurnMagnitude" -> add_status_magnitude(acc, "Burn", Div(value, R(100)))
      [] stat = "BurnMaxStacks" -> add_status_max_stacks(acc, "Burn", as_i32(value))
      [] stat = "ConvertPhysicalToBurn" -> add_conversion(acc, "Physical", "Burn", Div(value, R(100)))
      [] stat = "ConvertFireToBurn" -> add_conversion(acc, "Fire", "Burn", Div(value, R(100)))
      [] stat = "ConvertColdToBurn" -> add_conversion(acc, "Cold", "Burn", Div(value, R(100)))
      [] stat = "ConvertLightningToBurn" -> add_conversion(acc, "Lightning", "Burn", Div(value, R(100)))
      [] stat = "ConvertChaosToBurn" -> add_conversion(acc, "Chaos", "Burn", Div(value, R(100)))
      [] stat = "IncreasedFreezeDuration" -> add_status_duration(acc, "Freeze", Div(value, R(100)))
      [] stat = "FreezeMagnitude" -> add_status_magnitude(acc, "Freeze", Div(value, R(100)))
      [] stat = "FreezeMaxStacks" -> add_status_max_stacks(acc, "Freeze", as_i32(value))
      [] stat = "ConvertPhysicalToFreeze" -> add_conversion(acc, "Physical", "Freeze", Div(value, R(100)))
      [] stat = "ConvertFireToFreeze" -> add_conversion(acc, "Fire", "Freeze", Div(value, R(100)))
      [] stat = "ConvertColdToFreeze" -> add_conversion(acc, "Cold", "Freeze", Div(value, R(100)))
      [] stat = "ConvertLightningToFreeze" -> add_conversion(acc, "Lightning", "Freeze", Div(value, R(100)))
      [] stat = "ConvertChaosToFreeze" -> add_conversion(acc, "Chaos", "Freeze", Div(value, R(100)))
      [] stat = "IncreasedChillDuration" -> add_status_duration(acc, "Chill", Div(value, R(100)))
      [] stat = "ChillMagnitude" -> add_status_magnitude(acc, "Chill", Div(value, R(100)))
      [] stat = "ChillMaxStacks" -> add_status_max_stacks(acc, "Chill", as_i32(value))
      [] stat = "ConvertPhysicalToChill" -> add_conversion(acc, "Physical", "Chill", Div(value, R(100)))
      [] stat = "ConvertFireToChill" -> add_conversion(acc, "Fire", "Chill", Div(value, R(100)))
      [] stat = "ConvertColdToChill" -> add_conversion(acc, "Cold", "Chill", Div(value, R(100)))
      [] stat = "ConvertLightningToChill" -> add_conversion(acc, "Lightning", "Chill", Div(value, R(100)))
      [] stat = "ConvertChaosToChill" -> add_conversion(acc, "Chaos", "Chill", Div(value, R(100)))
      [] stat = "IncreasedStaticDuration" -> add_status_duration(acc, "Static", Div(value, R(100)))
      [] stat = "StaticMagnitude" -> add_status_magnitude(acc, "Static", Div(value, R(100)))
      [] stat = "StaticMaxStacks" -> add_status_max_stacks(acc, "Static", as_i32(value))
      [] stat = "ConvertPhysicalToStatic" -> add_conversion(acc, "Physical", "Static", Div(value, R(100)))
      [] stat = "ConvertFireToStatic" -> add_conversion(acc, "Fire", "Static", Div(value, R(100)))
      [] stat = "ConvertColdToStatic" -> add_conversion(acc, "Cold", "Static", Div(value, R(100)))
      [] stat = "ConvertLightningToStatic" -> add_conversion(acc, "Lightning", "Static", Div(value, R(100)))
      [] stat = "ConvertChaosToStatic" -> add_conversion(acc, "Chaos", "Static", Div(value, R(100)))
      [] stat = "IncreasedFearDuration" -> add_status_duration(acc, "Fear", Div(value, R(100)))
      [] stat = "FearMagnitude" -> add_status_magnitude(acc, "Fear", Div(value, R(100)))
      [] stat = "FearMaxStacks" -> add_status_max_stacks(acc, "Fear", as_i32(value))
      [] stat = "ConvertPhysicalToFear" -> add_conversion(acc, "Physical", "Fear", Div(value, R(100)))
      [] stat = "ConvertFireToFear" -> add_conversion(acc, "Fire", "Fear", Div(value, R(100)))
      [] stat = "ConvertColdToFear" -> add_conversion(acc, "Cold", "Fear", Div(value, R(100)))
      [] stat = "ConvertLightningToFear" -> add_conversion(acc, "Lightning", "Fear", Div(value, R(100)))
      [] stat = "ConvertChaosToFear" -> add_conversion(acc, "Chaos", "Fear", Div(value, R(100)))
      [] stat = "IncreasedSlowDuration" -> add_status_duration(acc, "Slow", Div(value, R(100)))
      [] stat = "SlowMagnitude" -> add_status_magnitude(acc, "Slow", Div(value, R(100)))
      [] stat = "SlowMaxStacks" -> add_status_max_stacks(acc, "Slow", as_i32(value))
      [] stat = "ConvertPhysicalToSlow" -> add_conversion(acc, "Physical", "Slow", Div(value, R(100)))
      [] stat = "ConvertFireToSlow" -> add_conversion(acc, "Fire", "Slow", Div(value, R(100)))
      [] stat = "ConvertColdToSlow" -> add_conversion(acc, "Cold", "Slow", Div(value, R(100)))
      [] stat = "ConvertLightningToSlow" -> add_conversion(acc, "Lightning", "Slow", Div(value, R(100)))

\* StatValue { base, flat, increased, more }
StatValue_new(base) == [base |-> base, flat |-> Zero, increased |-> Zero, more |-> <<>>]

add_flat(sv, value) == [sv EXCEPT !.flat = Add(@, value)]

add_increased(sv, value) == [sv EXCEPT !.increased = Add(@, value)]

add_more(sv, value) == [sv EXCEPT !.more = Append(@, value)]

\* for more in &list { sv.add_more(*more) }
RECURSIVE add_all_more(_, _, _)
add_all_more(sv, list, i) ==
    IF i > Len(list) THEN sv ELSE add_all_more(add_more(sv, list[i]), list, i + 1)

\* the StatValue fields of StatBlock that apply_to writes
StatValueFields == {
    "max_life", "max_mana", "strength", "dexterity", "intelligence",
    "constitution", "wisdom", "charisma", "armour", "evasion",
    "fire_resistance", "cold_resistance", "lightning_resistance",
    "chaos_resistance", "global_physical_damage", "global_fire_damage",
    "global_cold_damage", "global_lightning_damage", "global_chaos_damage",
    "attack_speed", "cast_speed", "critical_chance", "critical_multiplier",
    "fire_penetration", "cold_penetration", "lightning_penetration",
    "chaos_penetration", "life_regen", "mana_regen", "life_leech",
    "mana_leech", "accuracy"}

\* the f64 fields of StatBlock that apply_to writes
PlainBlockFields == {
    "weapon_physical_min", "weapon_physical_max", "weapon_attack_speed",
    "weapon_crit_chance", "weapon_fire_min", "weapon_fire_max",
    "weapon_cold_min", "weapon_cold_max", "weapon_lightning_min",
    "weapon_lightning_max", "weapon_chaos_min", "weapon_chaos_max",
    "movement_speed_increased", "item_rarity_increased",
    "item_quantity_increased"}

\* a StatBlock before any commit: the part of it apply_to touches
StatBlock_new ==
    [f \in StatValueFields \cup PlainBlockFields \cup {"status_effect_stats"} |->
        IF f \in StatValueFields THEN StatValue_new(Zero)
        ELSE IF f \in PlainBlockFields THEN Zero
        ELSE [stats |-> HashMap_new, conversions |-> HashMap_new]]

\* a StatBlock that already holds values in the places a commit writes
StatBlock_equipped ==
    [StatBlock_new EXCEPT
        !.max_life = [StatValue_new(R(50)) EXCEPT !.flat = R(5)],
        !.fire_resistance = [StatValue_new(Zero) EXCEPT !.flat = R(10)],
        !.global_fire_damage = [StatValue_new(Zero) EXCEPT !.increased = Frac(1, 10),
                                                           !.more = <<Frac(1, 5)>>],
        !.movement_speed_increased = Frac(1, 10),
        !.status_effect_stats =
            [stats |-> Put(HashMap_new, "Poison",
                           [StatusEffectStats_default EXCEPT !.max_stacks = 7]),
             conversions |-> Put(HashMap_new, "Burn",
                                 Put(HashMap_new, "Fire", Frac(1, 2)))]]

StartBlocks == {StatBlock_new, StatBlock_equipped}

\* StatusEffectData::set_stats / set_conversions for every accumulated entry
set_stats(table, entries) ==
    [table EXCEPT !.stats =
        [s \in DOMAIN @ \cup DOMAIN entries |->
            IF s \in DOMAIN entries THEN entries[s] ELSE @[s]]]

set_conversions(table, entries) ==
    [table EXCEPT !.conversions =
        [s \in DOMAIN @ \cup DOMAIN entries |->
            IF s \in DOMAIN entries THEN entries[s] ELSE @[s]]]

\* for (dmg_type, min, max) in &self.weapon_elemental_damages
RECURSIVE apply_weapon_elemental(_, _, _)
apply_weapon_elemental(block, list, i) ==
    IF i > Len(list) THEN block
    ELSE LET dmg_type == list[i][1]
             min == list[i][2]
             max == list[i][3]
             next ==
                 CASE dmg_type = "Fire" ->
                        [block EXCEPT !.weapon_fire_min = Add(@, min),
                                      !.weapon_fire_max = Add(@, max)]
                   [] dmg_type = "Cold" ->
                        [block EXCEPT !.weapon_cold_min = Add(@, min),
                                      !.weapon_cold_max = Add(@, max)]
                   [] dmg_type = "Lightning" ->
                        [block EXCEPT !.weapon_lightning_min = Add(@, min),
                                      !.weapon_lightning_max = Add(@, max)]
                   [] dmg_type = "Chaos" ->
                        [block EXCEPT !.weapon_chaos_min = Add(@, min),
                                      !.weapon_chaos_max = Add(@, max)]
                   [] dmg_type = "Physical" -> block
         IN  apply_weapon_elemental(next, list, i + 1)

\* apply_to, StatValues and utility
apply_to_stats(acc, block) ==
    [block EXCEPT
        !.max_life = add_all_more(add_increased(add_flat(@, acc.life_flat),
                                  acc.life_increased), acc.life_more, 1),
        !.max_mana = add_all_more(add_increased(add_flat(@, acc.mana_flat),
                                  acc.mana_increased), acc.mana_more, 1),
        !.strength = add_flat(@, Add(acc.strength_flat, acc.all_attributes_flat)),
        !.dexterity = add_flat(@, Add(acc.dexterity_flat, acc.all_attributes_flat)),
        !.intelligence = add_flat(@, Add(acc.intelligence_flat, acc.all_attributes_flat)),
        !.constitution = add_flat(@, Add(acc.constitution_flat, acc.all_attributes_flat)),
        !.wisdom = add_flat(@, Add(acc.wisdom_flat, acc.all_attributes_flat)),
        !.charisma = add_flat(@, Add(acc.charisma_flat, acc.all_attributes_flat)),
        !.armour = add_increased(add_flat(@, acc.armour_flat), acc.armour_increased),
        !.evasion = add_increased(add_flat(@, acc.evasion_flat), acc.evasion_increased),
        !.fire_resistance = add_flat(@, Add(acc.fire_resistance, acc.all_resistances)),
        !.cold_resistance = add_flat(@, Add(acc.cold_resistance, acc.all_resistances)),
        !.lightning_resistance =
            add_flat(@, Add(acc.lightning_resistance, acc.all_resistances)),
        !.chaos_resistance = add_flat(@, acc.chaos_resistance),
        !.global_physical_damage =
            add_all_more(add_increased(add_flat(@, acc.physical_damage_flat),
                         acc.physical_damage_increased), acc.physical_damage_more, 1),
        !.global_fire_damage =
            add_all_more(add_increased(add_flat(@, acc.fire_damage_flat),
                         Add(acc.fire_damage_increased, acc.elemental_damage_increased)),
                         acc.fire_damage_more, 1),
        !.global_cold_damage =
            add_all_more(add_increased(add_flat(@, acc.cold_damage_flat),
                         Add(acc.cold_damage_increased, acc.elemental_damage_increased)),
                         acc.cold_damage_more, 1),
        !.global_lightning_damage =
            add_all_more(add_increased(add_flat(@, acc.lightning_damage_flat),
                         Add(acc.lightning_damage_increased,
                             acc.elemental_damage_increased)),
                         acc.lightning_damage_more, 1),
        !.global_chaos_damage =
            add_all_more(add_increased(add_flat(@, acc.chaos_damage_flat),
                         acc.chaos_damage_increased), acc.chaos_damage_more, 1),
        !.attack_speed = add_increased(@, acc.attack_speed_increased),
        !.cast_speed = add_increased(@, acc.cast_speed_increased),
        !.critical_chance = add_increased(add_flat(@, acc.critical_chance_flat),
                                          acc.critical_chance_increased),
        !.critical_multiplier = add_flat(@, acc.critical_multiplier_flat),
        !.fire_penetration = add_flat(@, acc.fire_penetration),
        !.cold_penetration = add_flat(@, acc.cold_penetration),
        !.lightning_penetration = add_flat(@, acc.lightning_penetration),
        !.chaos_penetration = add_flat(@, acc.chaos_penetration),
        !.life_regen = add_flat(@, acc.life_regen_flat),
        !.mana_regen = add_flat(@, acc.mana_regen_flat),
        !.life_leech = add_flat(@, acc.life_leech_percent),
        !.mana_leech = add_flat(@, acc.mana_leech_percent),
        !.accuracy = add_increased(add_flat(@, acc.accuracy_flat), acc.accuracy_increased),
        !.movement_speed_increased = Add(@, acc.movement_speed_increased),
        !.item_rarity_increased = Add(@, acc.item_rarity_increased),
        !.item_quantity_increased = Add(@, acc.item_quantity_increased),
        !.status_effect_stats =
            set_conversions(set_stats(@, acc.status_stats), acc.status_conversions)]

\* apply_to, weapon stats
apply_to_weapon(acc, block) ==
    LET phys_mult == Add(One, acc.weapon_physical_increased)
        with_physical ==
            IF Gt(acc.weapon_physical_min, Zero) \/ Gt(acc.weapon_physical_max, Zero)
            THEN [block EXCEPT
                     !.weapon_physical_min = Mul(acc.weapon_physical_min, phys_mult),
                     !.weapon_physical_max = Mul(acc.weapon_physical_max, phys_mult)]
            ELSE block
        with_speed ==
            IF Gt(acc.weapon_attack_speed, Zero)
            THEN [with_physical EXCEPT !.weapon_attack_speed = acc.weapon_attack_speed]
            ELSE with_physical
        with_crit ==
            IF Gt(acc.weapon_crit_chance, Zero)
            THEN [with_speed EXCEPT !.weapon_crit_chance = acc.weapon_crit_chance]
            ELSE with_speed
    IN  apply_weapon_elemental(with_crit, acc.weapon_elemental_damages, 1)

\* (variant) all_resistances reaches chaos resistance as well
apply_to_chaos_too(acc, block) ==
    apply_to_weapon(acc,
        apply_to_stats([acc EXCEPT !.chaos_resistance = Add(@, acc.all_resistances)],
                       block))

\* StatAccumulator::apply_to: the block after the commit
apply_to(acc, block) == apply_to_weapon(acc, apply_to_stats(acc, block))

\* the modifiers applied in sequences of any order
SampleModifiers == <<
    <<"AddedLife", R(10)>>,
    <<"AddedLife", R(-3)>>,
    <<"PoisonMaxStacks", Frac(3, 2)>>,
    <<"PoisonMaxStacks", Frac(5, 2)>>,
    <<"PoisonDamageOverTime", R(30)>>,
    <<"ConvertPhysicalToPoison", R(25)>>,
    <<"ConvertPhysicalToPoison", R(10)>>,
    <<"ConvertFireToPoison", R(10)>> >>

\* modifiers that apply_to folds into several stats, with the stats' own
FoldModifiers == <<
    <<"FireResistance", R(10)>>,
    <<"ChaosResistance", R(8)>>,
    <<"AllResistances", R(5)>>,
    <<"AddedStrength", R(4)>>,
    <<"AddedAllAttributes", R(2)>>,
    <<"IncreasedElementalDamage", R(20)>>,
    <<"IncreasedFireDamage", R(50)>>,
    <<"IncreasedPhysicalDamage", R(30)>> >>

\* every StatType once, applied alone to a fresh accumulator
SingleModifiers == { <<stat, value>> : stat \in StatType, value \in {Frac(7, 2)} }

Range(list) == { list[i] : i \in DOMAIN list }

\* the modifier sequences applied: any sequence of the sample up to MaxMods,
\* and every single modifier
InBounds(mods) ==
    /\ Len(mods) <= MaxMods
    /\ \/ Len(mods) = 1
       \/ Range(mods) \subseteq Range(SampleModifiers)
       \/ Range(mods) \subseteq Range(FoldModifiers)

InitAggregator ==
    /\ defender = Block(0, 0, 0, 0, 0, 0, <<0, 0>>)
    /\ new_defender = defender
    /\ packet = NoPacket
    /\ result = CombatResult_new
    /\ stages = NoStages
    /\ draws = <<>>
    /\ pc = "idle"
    /\ hits = 0
    /\ query = NoQuery
    /\ ops = 0
    /\ statics = InstalledStatics
    /\ threads = NoThreads
    /\ accumulator = StatAccumulator_new
    /\ applied_mods = <<>>

\* accumulator.apply_stat_type(stat, value)
ApplyStatType(mod) ==
    /\ InBounds(Append(applied_mods, mod))
    /\ accumulator' = apply_stat_type(accumulator, mod[1], mod[2])
    /\ applied_mods' = Append(applied_mods, mod)
    /\ query' = [fn |-> "apply_stat_type", before |-> accumulator,
                 stat |-> mod[1], value |-> mod[2]]
    /\ UNCHANGED <<defender, ops, call_vars, registry_vars>>

\* accumulator.apply_to(&mut block) on a copy of a starting block
ApplyTo(start) ==
    /\ query.fn # "apply_to"
    /\ query' = [fn |-> "apply_to", start |-> start,
                 block |-> apply_to(accumulator, start), commits |-> 1]
    /\ UNCHANGED <<defender, ops, call_vars, registry_vars, aggregator_vars>>

\* accumulator.apply_to(&mut block) once more on the block just committed
ApplyToCommitted ==
    /\ query.fn = "apply_to"
    /\ query.commits = 1
    /\ query' = [query EXCEPT !.block = apply_to(accumulator, @), !.commits = 2]
    /\ UNCHANGED <<defender, ops, call_vars, registry_vars, aggregator_vars>>

NextAggregator ==
    \/ \E mod \in Range(SampleModifiers) \cup Range(FoldModifiers) \cup SingleModifiers :
          ApplyStatType(mod)
    \/ \E start \in StartBlocks : ApplyTo(start)
    \/ ApplyToCommitted

SpecAggregator == InitAggregator /\ [][NextAggregator]_vars

-----------------------------------------------------------------------------
(* Damage-packet generation (damage/calculation.rs): calculate_damage,     *)
(* calculate_average_damage_by_type and calculate_skill_dps for a caller   *)
(* holding one attacker and one skill.  A HashMap is a function from its   *)
(* keys; the order in which a HashMap is iterated is not fixed by its      *)
(* content (std RandomState) and is an input of every operator that        *)
(* iterates one.                                                           *)

\* StatValue: 1 + increased
total_increased_multiplier(sv) == Add(One, sv.increased)

\* StatValue: the product of 1 + more over the more entries
RECURSIVE total_more_from(_, _)
total_more_from(more, i) ==
    IF i > Len(more) THEN One
    ELSE Mul(Add(One, more[i]), total_more_from(more, i + 1))

total_more_multiplier(sv) == total_more_from(sv.more, 1)

\* StatValue: (base + flat) * (1 + increased) * product of (1 + more)
compute(sv) ==
    Mul(Mul(Add(sv.base, sv.flat), total_increased_multiplier(sv)),
        total_more_multiplier(sv))

\* the stats of one status as calculate_damage reads them
StatusStats_default ==
    [dot_increased |-> Zero, duration_increased |-> Zero,
     status_damage_increased |-> Zero, magnitude |-> Zero]

\* StatBlock::new as an attacker: crit multiplier 1.5, no weapon, no bonuses
Attacker_new ==
    [f \in DOMAIN StatBlock_new
             \cup {"culling_strike", "life_on_kill", "mana_on_kill", "dot_multiplier"} |->
        IF f = "critical_multiplier" THEN StatValue_new(Frac(3, 2))
        ELSE IF f \in {"attack_speed", "cast_speed"} THEN StatValue_new(One)
        ELSE IF f = "status_effect_stats"
        THEN [stats |-> HashMap_new, conversions |-> HashMap_new,
              status_damage_on_crit_increased |-> Zero,
              status_magnitude_on_crit |-> Zero]
        ELSE IF f \in DOMAIN StatBlock_new THEN StatBlock_new[f]
        ELSE Zero]

\* an attacker with gear: scaled damage, a weapon, crit, conversions to poison
Attacker_geared ==
    [Attacker_new EXCEPT
        !.global_physical_damage = add_increased(@, Frac(1, 2)),
        !.global_fire_damage = add_more(@, Frac(1, 5)),
        !.critical_chance = add_increased(add_flat(@, R(20)), Frac(1, 2)),
        !.weapon_crit_chance = R(10),
        !.weapon_physical_min = R(50),
        !.weapon_physical_max = R(50),
        !.weapon_attack_speed = R(2),
        !.fire_penetration = add_flat(@, R(15)),
        !.accuracy = add_flat(@, R(200)),
        !.culling_strike = R(10),
        !.life_on_kill = R(5),
        !.dot_multiplier = AttackerDotMultiplier,
        !.status_effect_stats =
            [stats |-> Put(HashMap_new, "Poison", AttackerStatusStats),
             conversions |-> Put(HashMap_new, "Poison",
                                 Put(HashMap_new, "Physical", Frac(1, 4))),
             status_damage_on_crit_increased |-> Frac(1, 2),
             status_magnitude_on_crit |-> Frac(1, 4)]]

\* crit chance beyond 100 before the clamp
Attacker_sure ==
    [Attacker_new EXCEPT
        !.critical_chance = add_increased(add_flat(@, R(100)), One)]

\* crit chance below 0 before the clamp, and an inverted weapon range
Attacker_never ==
    [Attacker_new EXCEPT
        !.critical_chance = add_flat(@, R(-50)),
        !.weapon_crit_chance = R(10),
        !.weapon_cold_min = R(30),
        !.weapon_cold_max = R(20)]

\* the attackers a caller can hold, by name
Attackers ==
    [name \in {"new", "geared", "sure", "never"} |->
        CASE name = "new" -> Attacker_new
          [] name = "geared" -> Attacker_geared
          [] name = "sure" -> Attacker_sure
          [] name = "never" -> Attacker_never]

\* DamagePacketGenerator::default with the given base damages
Skill(id, base_damages, tags) ==
    [id |-> id, base_damages |-> base_damages, tags |-> tags,
     weapon_effectiveness |-> Zero, damage_effectiveness |-> One,
     damage_conversions |-> HashMap_new, type_effectiveness |-> HashMap_new,
     base_crit_chance |-> Zero, crit_multiplier_bonus |-> Zero,
     status_conversions |-> HashMap_new, status_chance_increased |-> HashMap_new,
     attack_speed_modifier |-> One, hits_per_attack |-> 1]

BaseDamage(damage_type, min, max) ==
    [damage_type |-> damage_type, min |-> R(min), max |-> R(max)]

Skills ==
    { Skill("spell", <<BaseDamage("Physical", 100, 100)>>, {"Spell"}),
      [Skill("attack", <<BaseDamage("Fire", 50, 50), BaseDamage("Physical", 20, 40)>>,
             {"Attack"})
          EXCEPT !.weapon_effectiveness = One,
                 !.base_crit_chance = R(5),
                 !.crit_multiplier_bonus = Frac(1, 2),
                 !.status_conversions = Put(HashMap_new, <<"Fire", "Burn">>, Frac(1, 2)),
                 !.status_chance_increased = Put(HashMap_new, "Burn", Frac(1, 4)),
                 !.hits_per_attack = 2],
      [Skill("convert", <<BaseDamage("Physical", 100, 100), BaseDamage("Cold", 60, 60)>>,
             {"Spell"})
          EXCEPT !.damage_conversions = Put(HashMap_new, <<"Physical", "Fire">>, Frac(1, 2)),
                 !.type_effectiveness = Put(HashMap_new, "Cold", Zero),
                 !.damage_effectiveness = R(2),
                 !.status_conversions = Put(HashMap_new, <<"Fire", "Burn">>, Frac(1, 2))],
      [Skill("inverted", <<BaseDamage("Physical", 10, 5), BaseDamage("Chaos", 40, 40)>>,
             {"Attack"})
          EXCEPT !.weapon_effectiveness = Frac(1, 2),
                 !.base_crit_chance = R(5)] }

\* the calls a caller makes with its attacker and skill
MaxQueries == 3

\* a uniform draw of the caller's random source
CalcDraws == {Zero, Frac(2, 5), Frac(99, 100)}

\* the sequences a random source can yield for one call
CalcRngs == { <<roll, crit>> : roll \in CalcDraws, crit \in CalcDraws }

is_attack(skill) == "Attack" \in skill.tags

is_spell(skill) == "Spell" \in skill.tags

\* StatBlock::weapon_damage(damage_type) as <<min, max>>
weapon_damage(attacker, damage_type) ==
    CASE damage_type = "Physical" ->
            <<attacker.weapon_physical_min, attacker.weapon_physical_max>>
      [] damage_type = "Fire" -> <<attacker.weapon_fire_min, attacker.weapon_fire_max>>
      [] damage_type = "Cold" -> <<attacker.weapon_cold_min, attacker.weapon_cold_max>>
      [] damage_type = "Lightning" ->
            <<attacker.weapon_lightning_min, attacker.weapon_lightning_max>>
      [] damage_type = "Chaos" -> <<attacker.weapon_chaos_min, attacker.weapon_chaos_max>>

\* the order of the weapon loop's array literal
WeaponTypeOrder == <<"Physical", "Fire", "Cold", "Lightning", "Chaos">>

\* the order of the status loop's array literal
StatusOrder == <<"Poison", "Bleed", "Burn", "Freeze", "Chill", "Static", "Fear", "Slow">>

\* the weapon ranges an attack skill adds, scaled by weapon_effectiveness
RECURSIVE weapon_sources(_, _, _)
weapon_sources(attacker, skill, i) ==
    IF i > Len(WeaponTypeOrder) THEN <<>>
    ELSE LET range == weapon_damage(attacker, WeaponTypeOrder[i])
             here ==
                 IF Gt(range[2], Zero)
                 THEN <<[damage_type |-> WeaponTypeOrder[i],
                         min |-> Mul(range[1], skill.weapon_effectiveness),
                         max |-> Mul(range[2], skill.weapon_effectiveness)]>>
                 ELSE <<>>
         IN  here \o weapon_sources(attacker, skill, i + 1)

\* step 1, the ranges that contribute base damage, in the order gathered
base_sources(attacker, skill) ==
    skill.base_damages \o
        (IF is_attack(skill) /\ Gt(skill.weapon_effectiveness, Zero)
         THEN weapon_sources(attacker, skill, 1)
         ELSE <<>>)

\* rng.gen_range(min..=max) for the uniform draw u
gen_range(min, max, u) == Add(min, Mul(u, Sub(max, min)))

\* step 1 of calculate_damage: each range rolled (or taken exactly when
\* min >= max) and summed per type; used counts the draws taken
RECURSIVE gather_rolled(_, _, _, _, _)
gather_rolled(sources, i, base_damages, rng, used) ==
    IF i > Len(sources) THEN [base_damages |-> base_damages, used |-> used]
    ELSE LET src == sources[i]
             exact == Ge(src.min, src.max)
             rolled == IF exact THEN src.max
                       ELSE gen_range(src.min, src.max, rng[used + 1])
         IN  gather_rolled(sources, i + 1,
                 Put(base_damages, src.damage_type,
                     Add(GetOr(base_damages, src.damage_type, Zero), rolled)),
                 rng, IF exact THEN used ELSE used + 1)

\* step 1 of calculate_average_damage_by_type: the midpoint of each range
RECURSIVE gather_average(_, _, _)
gather_average(sources, i, base_damages) ==
    IF i > Len(sources) THEN base_damages
    ELSE LET src == sources[i]
             avg == Div(Add(src.min, src.max), R(2))
         IN  gather_average(sources, i + 1,
                 Put(base_damages, src.damage_type,
                     Add(GetOr(base_damages, src.damage_type, Zero), avg)))

has_conversions(conversions) == DOMAIN conversions # {}

\* the share of a type that the skill converts away
converted_share(conversions, from) ==
    LET targets == { pair \in DOMAIN conversions : pair[1] = from }
        RECURSIVE sum(_)
        sum(rest) == IF rest = {} THEN Zero
                     ELSE LET pair == CHOOSE p \in rest : TRUE
                          IN  Add(conversions[pair], sum(rest \ {pair}))
    IN  sum(targets)

\* what a type receives from the other types
converted_gain(conversions, base_damages, to) ==
    LET sources == { pair \in DOMAIN conversions :
                       pair[2] = to /\ pair[1] \in DOMAIN base_damages }
        RECURSIVE sum(_)
        sum(rest) == IF rest = {} THEN Zero
                     ELSE LET pair == CHOOSE p \in rest : TRUE
                          IN  Add(Mul(base_damages[pair[1]], conversions[pair]),
                                  sum(rest \ {pair}))
    IN  sum(sources)

\* DamageConversions::apply: each type keeps what is not converted away and
\* receives what is converted to it
apply_conversions(conversions, base_damages) ==
    [t \in DOMAIN base_damages \cup { pair[2] : pair \in DOMAIN conversions } |->
        Add(Mul(GetOr(base_damages, t, Zero),
                Sub(One, converted_share(conversions, t))),
            converted_gain(conversions, base_damages, t))]

\* step 2
converted_damages(skill, base_damages) ==
    IF has_conversions(skill.damage_conversions)
    THEN apply_conversions(skill.damage_conversions, base_damages)
    ELSE base_damages

global_damage(attacker, damage_type) ==
    CASE damage_type = "Physical" -> attacker.global_physical_damage
      [] damage_type = "Fire" -> attacker.global_fire_damage
      [] damage_type = "Cold" -> attacker.global_cold_damage
      [] damage_type = "Lightning" -> attacker.global_lightning_damage
      [] damage_type = "Chaos" -> attacker.global_chaos_damage

\* step 3 for one type
scaled_damage(attacker, skill, damage_type, base_amount) ==
    LET damage_stat == global_damage(attacker, damage_type)
        increased_mult == total_increased_multiplier(damage_stat)
        more_mult == total_more_multiplier(damage_stat)
        type_eff == GetOr(skill.type_effectiveness, damage_type, One)
    IN  Mul(Mul(Mul(Mul(base_amount, increased_mult), more_mult),
                skill.damage_effectiveness), type_eff)

\* the orders in which a HashMap with these keys can be iterated
IterationOrders(keys) ==
    { order \in [1..Cardinality(keys) -> keys] :
        \A i, j \in 1..Cardinality(keys) : i # j => order[i] # order[j] }

\* step 3: for (damage_type, base_amount) in converted_damages, in the order
\* the map is iterated; only positive amounts reach the list
RECURSIVE scale_all(_, _, _, _, _)
scale_all(attacker, skill, damages, order, i) ==
    IF i > Len(order) THEN <<>>
    ELSE LET damage_type == order[i]
             base_amount == damages[damage_type]
             scaled == scaled_damage(attacker, skill, damage_type, base_amount)
             here == IF Le(base_amount, Zero) THEN <<>>
                     ELSE IF Gt(scaled, Zero)
                     THEN <<[damage_type |-> damage_type, amount |-> scaled]>>
                     ELSE <<>>
         IN  here \o scale_all(attacker, skill, damages, order, i + 1)

\* (variant) the weapon's crit chance counts for every skill
calculate_crit_chance_any_skill(attacker, skill) ==
    LET flat_crit == Add(Add(skill.base_crit_chance, attacker.weapon_crit_chance),
                         attacker.critical_chance.flat)
    IN  Clamp(Mul(Mul(flat_crit, total_increased_multiplier(attacker.critical_chance)),
                  total_more_multiplier(attacker.critical_chance)),
              Zero, R(100))

calculate_crit_chance(attacker, skill) ==
    LET base_crit == IF is_attack(skill)
                     THEN Add(skill.base_crit_chance, attacker.weapon_crit_chance)
                     ELSE skill.base_crit_chance
        flat_crit == Add(base_crit, attacker.critical_chance.flat)
        increased_mult == total_increased_multiplier(attacker.critical_chance)
        more_mult == total_more_multiplier(attacker.critical_chance)
    IN  Clamp(Mul(Mul(flat_crit, increased_mult), more_mult), Zero, R(100))

computed_crit_multiplier(attacker) == compute(attacker.critical_multiplier)

\* SkillStatusConversions::get_conversion
skill_conversion(skill, damage_type, status) ==
    GetOr(skill.status_conversions, <<damage_type, status>>, Zero)

\* (variant) only the skill's conversions count
calculate_combined_status_damage_skill_only(status, damages, skill, player_stats) ==
    LET RECURSIVE total(_)
        total(i) ==
            IF i > Len(damages) THEN Zero
            ELSE Add(Mul(damages[i].amount,
                         skill_conversion(skill, damages[i].damage_type, status)),
                     total(i + 1))
    IN  total(1)

calculate_combined_status_damage(status, damages, skill, player_stats) ==
    LET player_conversions == GetOr(player_stats.conversions, status, HashMap_new)
        RECURSIVE total(_)
        total(i) ==
            IF i > Len(damages) THEN Zero
            ELSE LET skill_conv == skill_conversion(skill, damages[i].damage_type, status)
                     player_conv == GetOr(player_conversions, damages[i].damage_type, Zero)
                     total_conv == Add(skill_conv, player_conv)
                 IN  Add(Mul(damages[i].amount, total_conv), total(i + 1))
    IN  total(1)

\* step 6 for one status: the request appended, as <<pending>>, or <<>>
pending_status(attacker, skill, status, damages, is_critical) ==
    LET status_damage0 ==
            calculate_combined_status_damage(status, damages, skill,
                                             attacker.status_effect_stats)
        registry == dot_registry
        stats == GetOr(attacker.status_effect_stats.stats, status, StatusStats_default)
        base_duration == get_base_duration(registry, status)
        duration == Mul(base_duration, Add(One, stats.duration_increased))
        status_damage1 == Mul(status_damage0, Add(One, stats.status_damage_increased))
        status_damage ==
            IF is_critical
            THEN Mul(status_damage1,
                     Add(One, attacker.status_effect_stats.status_damage_on_crit_increased))
            ELSE status_damage1
        magnitude ==
            Add(Add(One, stats.magnitude),
                IF is_critical THEN attacker.status_effect_stats.status_magnitude_on_crit
                ELSE Zero)
        base_dot_percent == get_base_damage_percent(registry, status)
        dot_dps == calculate_status_dot_dps(base_dot_percent, status_damage, stats,
                                            attacker.dot_multiplier)
    IN  IF Gt(status_damage0, Zero)
        THEN <<[new_with_dot(status, status_damage, duration, magnitude, dot_dps)
                  EXCEPT !.apply_chance_increased =
                             GetOr(skill.status_chance_increased, status, Zero)]>>
        ELSE <<>>

RECURSIVE pending_all(_, _, _, _, _)
pending_all(attacker, skill, damages, is_critical, i) ==
    IF i > Len(StatusOrder) THEN <<>>
    ELSE pending_status(attacker, skill, StatusOrder[i], damages, is_critical)
             \o pending_all(attacker, skill, damages, is_critical, i + 1)

\* calculate_damage: the packet, the damage list before the crit step and the
\* number of draws taken from rng; order is the iteration order of step 3
calculate_damage(attacker, skill, source_id, rng, order) ==
    LET gathered == gather_rolled(base_sources(attacker, skill), 1, HashMap_new, rng, 0)
        converted == converted_damages(skill, gathered.base_damages)
        scaled == scale_all(attacker, skill, converted, order, 1)
        crit_chance == calculate_crit_chance(attacker, skill)
        is_critical == Lt(rng[gathered.used + 1], Div(crit_chance, R(100)))
        crit_multiplier ==
            IF is_critical
            THEN Add(computed_crit_multiplier(attacker), skill.crit_multiplier_bonus)
            ELSE One
        damages ==
            IF is_critical
            THEN [i \in DOMAIN scaled |->
                     [scaled[i] EXCEPT !.amount = Mul(@, crit_multiplier)]]
            ELSE scaled
    IN  [packet |->
            [damages |-> damages,
             is_critical |-> is_critical,
             crit_multiplier |-> crit_multiplier,
             fire_pen |-> compute(attacker.fire_penetration),
             cold_pen |-> compute(attacker.cold_penetration),
             lightning_pen |-> compute(attacker.lightning_penetration),
             chaos_pen |-> compute(attacker.chaos_penetration),
             accuracy |-> compute(attacker.accuracy),
             is_spell |-> is_spell(skill),
             culling_strike |-> attacker.culling_strike,
             life_on_kill |-> attacker.life_on_kill,
             mana_on_kill |-> attacker.mana_on_kill,
             status_effects_to_apply |->
                 pending_all(attacker, skill, damages, is_critical, 1),
             hit_count |-> skill.hits_per_attack,
             source_id |-> source_id,
             skill_id |-> skill.id],
         scaled |-> scaled,
         used |-> gathered.used + 1]

\* (variant) the averages skip the skill's conversions
calculate_average_damage_unconverted(attacker, skill, order) ==
    LET base_damages == gather_average(base_sources(attacker, skill), 1, HashMap_new)
    IN  scale_all(attacker, skill, base_damages,
                  SelectSeq(order, LAMBDA t : t \in DOMAIN base_damages), 1)

\* calculate_average_damage_by_type
calculate_average_damage_by_type(attacker, skill, order) ==
    LET base_damages == gather_average(base_sources(attacker, skill), 1, HashMap_new)
        converted == converted_damages(skill, base_damages)
    IN  scale_all(attacker, skill, converted, order, 1)

RECURSIVE sum_amounts(_, _)
sum_amounts(damages, i) ==
    IF i > Len(damages) THEN Zero
    ELSE Add(damages[i].amount, sum_amounts(damages, i + 1))

\* the DoT part of calculate_skill_dps for Poison, Bleed, Burn
RECURSIVE skill_dot_dps(_, _, _, _, _, _)
skill_dot_dps(attacker, skill, avg_damages, crit_chance, speed, i) ==
    IF i > 3 THEN Zero
    ELSE LET status == StatusOrder[i]
             status_damage0 ==
                 calculate_combined_status_damage(status, avg_damages, skill,
                                                  attacker.status_effect_stats)
             stats == GetOr(attacker.status_effect_stats.stats, status,
                            StatusStats_default)
             status_damage1 == Mul(status_damage0,
                                   Add(One, stats.status_damage_increased))
             status_damage ==
                 Mul(status_damage1,
                     Add(One, Mul(attacker.status_effect_stats
                                      .status_damage_on_crit_increased, crit_chance)))
             status_dot_dps ==
                 calculate_status_dot_dps(
                     get_base_damage_percent(dot_registry, status), status_damage,
                     stats, attacker.dot_multiplier)
             here == IF Gt(status_damage0, Zero) THEN Mul(status_dot_dps, speed)
                     ELSE Zero
         IN  Add(here, skill_dot_dps(attacker, skill, avg_damages, crit_chance,
                                     speed, i + 1))

\* StatBlock::computed_attack_speed / computed_cast_speed
computed_attack_speed(attacker) ==
    Mul(IF Gt(attacker.weapon_attack_speed, Zero) THEN attacker.weapon_attack_speed
        ELSE One,
        compute(attacker.attack_speed))

computed_cast_speed(attacker) == compute(attacker.cast_speed)

calculate_skill_dps(attacker, skill, order) ==
    LET avg_damages == calculate_average_damage_by_type(attacker, skill, order)
        total_avg_damage == sum_amounts(avg_damages, 1)
        crit_chance == Div(calculate_crit_chance(attacker, skill), R(100))
        crit_mult == Add(computed_crit_multiplier(attacker), skill.crit_multiplier_bonus)
        crit_dps_mult == Add(One, Mul(Sub(crit_mult, One), crit_chance))
        speed == IF is_attack(skill)
                 THEN Mul(computed_attack_speed(attacker), skill.attack_speed_modifier)
                 ELSE Mul(computed_cast_speed(attacker), skill.attack_speed_modifier)
        hit_dps == Mul(Mul(Mul(total_avg_damage, crit_dps_mult), speed),
                       R(skill.hits_per_attack))
        dot_dps == skill_dot_dps(attacker, skill, avg_damages, crit_chance, speed, 1)
    IN  Add(hit_dps, dot_dps)

\* the skill with an id
SkillById == [id \in { skill.id : skill \in Skills } |->
                 CHOOSE skill \in Skills : skill.id = id]

\* what calculate_damage can return to a caller: one outcome for each order
\* in which step 3 can iterate its map
calculate_damage_outcomes ==
    [name \in DOMAIN Attackers, id \in DOMAIN SkillById, rng \in CalcRngs |->
        LET attacker == Attackers[name]
            skill == SkillById[id]
            gathered == gather_rolled(base_sources(attacker, skill), 1,
                                      HashMap_new, rng, 0)
            keys == DOMAIN converted_damages(skill, gathered.base_damages)
        IN  { calculate_damage(attacker, skill, "attacker", rng, order) :
                order \in IterationOrders(keys) }]

\* the keys of the map that the averaging functions iterate
average_keys(attacker, skill) ==
    DOMAIN converted_damages(skill,
               gather_average(base_sources(attacker, skill), 1, HashMap_new))

\* what calculate_average_damage_by_type can return to a caller
calculate_average_outcomes ==
    [name \in DOMAIN Attackers, id \in DOMAIN SkillById |->
        { calculate_average_damage_by_type(Attackers[name], SkillById[id], order) :
            order \in IterationOrders(average_keys(Attackers[name], SkillById[id])) }]

\* what calculate_skill_dps can return to a caller
calculate_skill_dps_outcomes ==
    [name \in DOMAIN Attackers, id \in DOMAIN SkillById |->
        { calculate_skill_dps(Attackers[name], SkillById[id], order) :
            order \in IterationOrders(average_keys(Attackers[name], SkillById[id])) }]

\* the attacker and the skill the caller holds
TheAttacker == Attackers[query.attacker]

TheSkill == SkillById[query.skill]

InitCalculate ==
    /\ defender = Block(0, 0, 0, 0, 0, 0, <<0, 0>>)
    /\ new_defender = defender
    /\ packet = NoPacket
    /\ result = CombatResult_new
    /\ stages = NoStages
    /\ draws = <<>>
    /\ pc = "idle"
    /\ hits = 0
    /\ \E attacker \in DOMAIN Attackers, skill \in DOMAIN SkillById :
          query = [fn |-> "none", attacker |-> attacker, skill |-> skill,
                   rng |-> <<>>, average |-> <<>>, dps |-> Zero, returned |-> {}]
    /\ ops = 0
    /\ statics = InstalledStatics
    /\ threads = NoThreads
    /\ accumulator = NoAccumulator
    /\ applied_mods = <<>>

\* let packet = calculate_damage(&attacker, &skill, source_id, &mut rng)
CalculateDamage(rng) ==
    /\ ops < MaxQueries
    /\ ops' = ops + 1
    /\ \E out \in calculate_damage_outcomes[query.attacker, query.skill, rng] :
          /\ packet' = out.packet
          /\ stages' = out.scaled
          /\ draws' = SubSeq(rng, 1, out.used)
    /\ query' = [query EXCEPT !.fn = "calculate_damage", !.rng = rng,
                              !.returned = @ \cup {"calculate_damage"}]
    /\ UNCHANGED <<defender, new_defender, result, pc, hits, registry_vars,
                   aggregator_vars>>

\* let averages = calculate_average_damage_by_type(&attacker, &skill)
CalculateAverage ==
    /\ ops < MaxQueries
    /\ ops' = ops + 1
    /\ \E out \in calculate_average_outcomes[query.attacker, query.skill] :
          query' = [query EXCEPT
                       !.fn = "calculate_average_damage_by_type",
                       !.average = out,
                       !.returned = @ \cup {"calculate_average_damage_by_type"}]
    /\ UNCHANGED <<defender, call_vars, registry_vars, aggregator_vars>>

\* let dps = calculate_skill_dps(&attacker, &skill)
CalculateSkillDps ==
    /\ ops < MaxQueries
    /\ ops' = ops + 1
    /\ \E out \in calculate_skill_dps_outcomes[query.attacker, query.skill] :
          query' = [query EXCEPT !.fn = "calculate_skill_dps", !.dps = out,
                                 !.returned = @ \cup {"calculate_skill_dps"}]
    /\ UNCHANGED <<defender, call_vars, registry_vars, aggregator_vars>>

NextCalculate ==
    \/ \E rng \in CalcRngs : CalculateDamage(rng)
    \/ CalculateAverage
    \/ CalculateSkillDps

SpecCalculate == InitCalculate /\ [][NextCalculate]_vars

-----------------------------------------------------------------------------
(* Drop tables (tables_core): DropTableRegistry::roll and the recursive    *)
(* DropTable::roll, one step of the call at a time.  The call stack is a   *)
(* sequence of frames, the innermost last; each frame is one activation of *)
(* DropTable::roll with the rolls it has left and the drops it has made.   *)

MAX_DEPTH == 10

\* Option<u32>: None is <<>>, Some(n) is <<n>>
NoLevel == <<>>

\* table.rs, Entry
Entry(entry_type, id, weight, min_level, max_level) ==
    [entry_type |-> entry_type, id |-> id, weight |-> weight, rarity_bonus |-> 0,
     min_level |-> min_level, max_level |-> max_level, count |-> <<1, 2>>]

\* table.rs, DropTable; from_config gives one roll of weight 1 when none is declared
DropTable(id, rolls, entries) ==
    [id |-> id,
     rolls |-> IF rolls = <<>> THEN <<[count |-> 1, weight |-> 1]>> ELSE rolls,
     entries |-> entries]

\* a chain of tables c<from> -> ... -> c11, the last one dropping an item
ChainIds == <<"c0", "c1", "c2", "c3", "c4", "c5", "c6", "c7", "c8", "c9", "c10", "c11">>

ChainTable(i) ==
    DropTable(ChainIds[i], <<>>,
              IF i < Len(ChainIds)
              THEN <<Entry("table", ChainIds[i + 1], 100, NoLevel, NoLevel)>>
              ELSE <<Entry("item", "sword", 100, NoLevel, NoLevel)>>)

\* the registries a caller can hold, by name
Registries ==
    [name \in {"empty", "cycle", "chain", "loop", "dangling"} |->
        CASE name = "empty" -> [id \in {} |-> <<>>]
          [] name = "cycle" ->
                [id \in {"table_a", "table_b"} |->
                    IF id = "table_a"
                    THEN DropTable("table_a", <<>>,
                             <<Entry("table", "table_b", 100, NoLevel, NoLevel)>>)
                    ELSE DropTable("table_b", <<>>,
                             <<Entry("table", "table_a", 100, NoLevel, NoLevel)>>)]
          [] name = "chain" ->
                [id \in { ChainIds[i] : i \in DOMAIN ChainIds } |->
                    ChainTable(CHOOSE i \in DOMAIN ChainIds : ChainIds[i] = id)]
          [] name = "loop" ->
                [id \in {"loop"} |->
                    DropTable("loop", <<>>,
                        <<Entry("no_drop", "", 10, NoLevel, NoLevel),
                          Entry("table", "loop", 10, NoLevel, NoLevel),
                          Entry("unique", "crown", 10, <<20>>, NoLevel)>>)]
          [] name = "dangling" ->
                [id \in {"outer", "inner"} |->
                    IF id = "outer"
                    THEN DropTable("outer", <<[count |-> 1, weight |-> 3],
                                              [count |-> 2, weight |-> 1]>>,
                             <<Entry("item", "sword", 50, NoLevel, NoLevel),
                               Entry("table", "inner", 50, NoLevel, NoLevel)>>)
                    ELSE DropTable("inner", <<>>,
                             <<Entry("currency", "gold", 50, NoLevel, NoLevel),
                               Entry("table", "missing", 50, NoLevel, <<10>>)>>)]]

\* the table ids a caller rolls
RollIds == {"nonexistent", "table_a", "c0", "c1", "loop", "outer"}

RollLevels == {5, 30}

\* quantity multipliers; one above 1 gives extra rolls at every level, which
\* the deep registries are not rolled with
QuantityMults(registry) ==
    IF registry \in {"chain", "loop"} THEN {Frac(1, 2), One}
    ELSE {Frac(1, 2), One, Frac(3, 2)}

\* DropTableRegistry::get: Some(table) is <<table>>, None is <<>>
DropTableRegistry_get(registry, id) ==
    IF id \in DOMAIN registry THEN <<registry[id]>> ELSE <<>>

\* Entry::level_valid
level_valid(entry, level) ==
    /\ entry.min_level # <<>> => ~(level < entry.min_level[1])
    /\ entry.max_level # <<>> => ~(level > entry.max_level[1])

\* select_roll_count for the drawn roll in 0..total_weight-1
RECURSIVE select_roll_count_from(_, _, _)
select_roll_count_from(rolls, i, roll) ==
    IF i > Len(rolls) THEN rolls[Len(rolls)].count
    ELSE IF roll < rolls[i].weight THEN rolls[i].count
    ELSE select_roll_count_from(rolls, i + 1, roll - rolls[i].weight)

RECURSIVE sum_weights(_, _)
sum_weights(rolls, i) ==
    IF i > Len(rolls) THEN 0 ELSE rolls[i].weight + sum_weights(rolls, i + 1)

\* the counts select_roll_count can return
select_roll_count(table) ==
    LET total_weight == sum_weights(table.rolls, 1)
    IN  IF total_weight = 0 THEN {1}
        ELSE { select_roll_count_from(table.rolls, 1, roll) :
                 roll \in 0..(total_weight - 1) }

\* scaled.floor() of a non-negative value
Floor(x) == x.n \div x.d

\* apply_quantity_mult for the uniform draw u
apply_quantity_mult(base, mult, u) ==
    LET scaled == Mul(R(base), mult)
        guaranteed == Floor(scaled)
        fraction == Sub(scaled, R(guaranteed))
    IN  IF Lt(u, fraction) THEN guaranteed + 1 ELSE guaranteed

\* the weighted selection loop for the uniform draw u: the index selected
RECURSIVE select_entry_from(_, _, _)
select_entry_from(weights, i, roll) ==
    IF i > Len(weights) THEN 1
    ELSE IF Le(Sub(roll, weights[i]), Zero) THEN i
    ELSE select_entry_from(weights, i + 1, Sub(roll, weights[i]))

RECURSIVE sum_f64(_, _)
sum_f64(weights, i) ==
    IF i > Len(weights) THEN Zero ELSE Add(weights[i], sum_f64(weights, i + 1))

\* a uniform draw in [0, 1)
RollDraws == {Zero, Frac(1, 4), Frac(3, 4)}

\* Result<Vec<Drop>, RollError>
RollOk(drops) == [tag |-> "Ok", id |-> "", drops |-> drops]

RollErr(tag, id) == [tag |-> tag, id |-> id, drops |-> <<>>]

RollPending == [tag |-> "pending", id |-> "", drops |-> <<>>]

\* one activation of DropTable::roll
Frame(table, depth, roll_count) ==
    [table |-> table.id, depth |-> depth, remaining |-> roll_count, drops |-> <<>>]

\* the registry the caller holds
TheRegistry == Registries[query.registry]

InitRoll ==
    /\ defender = Block(0, 0, 0, 0, 0, 0, <<0, 0>>)
    /\ new_defender = defender
    /\ packet = NoPacket
    /\ result = CombatResult_new
    /\ stages = NoStages
    /\ draws = <<>>
    /\ pc = "idle"
    /\ hits = 0
    /\ \E registry \in DOMAIN Registries, table_id \in RollIds, level \in RollLevels :
       \E quantity_mult \in QuantityMults(registry) :
          /\ registry # "empty" => table_id \in DOMAIN Registries[registry]
          /\ query = [fn |-> "none", registry |-> registry, table_id |-> table_id,
                      level |-> level, quantity_mult |-> quantity_mult,
                      stack |-> <<>>, outcome |-> RollPending,
                      deepest |-> 0, unregistered |-> FALSE]
    /\ ops = 0
    /\ statics = InstalledStatics
    /\ threads = NoThreads
    /\ accumulator = NoAccumulator
    /\ applied_mods = <<>>

\* (variant) the check refuses the tenth nested level already
roll_depth_exceeded_at_limit(depth) == depth >= MAX_DEPTH

\* if depth > MAX_DEPTH
roll_depth_exceeded(depth) == depth > MAX_DEPTH

\* the head of DropTable::roll at a depth: the cycle error, which `?` carries
\* through every caller, or a new frame with its roll count drawn
EnterTable(q, table, depth, stack) ==
    IF roll_depth_exceeded(depth)
    THEN { [q EXCEPT !.stack = <<>>,
                     !.outcome = RollErr("CycleDetected", table.id),
                     !.deepest = IF depth > @ THEN depth ELSE @] }
    ELSE { [q EXCEPT !.stack = Append(stack,
                         Frame(table, depth,
                               apply_quantity_mult(base_rolls, q.quantity_mult, u))),
                     !.deepest = IF depth > @ THEN depth ELSE @] :
             base_rolls \in select_roll_count(table), u \in RollDraws }

\* registry.roll(table_id, rarity_mult, quantity_mult, level, &mut rng)
Roll ==
    /\ query.fn = "none"
    /\ LET found == DropTableRegistry_get(TheRegistry, query.table_id)
           called == [query EXCEPT !.fn = "roll"]
       IN  IF found = <<>>
           THEN query' = [called EXCEPT
                             !.outcome = RollErr("UnknownTable", query.table_id)]
           ELSE query' \in EnterTable(called, found[1], 0, <<>>)
    /\ UNCHANGED <<defender, ops, call_vars, registry_vars, aggregator_vars>>

\* the frame on top of the stack with one roll taken off and drops appended
Continue(stack, new_drops) ==
    [stack EXCEPT ![Len(stack)] =
        [@ EXCEPT !.remaining = @ - 1, !.drops = @ \o new_drops]]

\* the body of `for _ in 0..roll_count` in the innermost activation: what the
\* call can be after one iteration, for each draw of the random source
roll_iteration(q, registry) ==
    LET frame == q.stack[Len(q.stack)]
        table == registry[frame.table]
        valid_entries == SelectSeq(table.entries, LAMBDA e : level_valid(e, q.level))
        weights == [i \in DOMAIN valid_entries |->
                       Add(R(valid_entries[i].weight),
                           Mul(R(valid_entries[i].rarity_bonus), One))]
        total_weight == sum_f64(weights, 1)
        selected(u) == valid_entries[select_entry_from(weights, 1, Mul(u, total_weight))]
        dropped(new_drops) == { [q EXCEPT !.stack = Continue(q.stack, new_drops)] }
        matched(entry) ==
            CASE entry.entry_type = "no_drop" -> dropped(<<>>)
              [] entry.entry_type \in {"item", "unique"} ->
                    dropped(<<[kind |-> entry.entry_type, id |-> entry.id, count |-> 1]>>)
              [] entry.entry_type = "currency" ->
                    UNION { LET final_count ==
                                    apply_quantity_mult(base_count, q.quantity_mult, v)
                            IN  dropped(IF final_count > 0
                                        THEN <<[kind |-> "currency", id |-> entry.id,
                                                count |-> final_count]>>
                                        ELSE <<>>) :
                            base_count \in entry.count[1]..entry.count[2],
                            v \in RollDraws }
              [] entry.entry_type = "table" ->
                    LET nested_table == DropTableRegistry_get(registry, entry.id)
                    IN  IF nested_table = <<>>
                        THEN { [q EXCEPT !.stack = <<>>,
                                         !.outcome = RollErr("UnknownTable", entry.id),
                                         !.unregistered = TRUE] }
                        ELSE EnterTable(q, nested_table[1], frame.depth + 1,
                                        Continue(q.stack, <<>>))
    IN  IF valid_entries = <<>> \/ Le(total_weight, Zero)
        THEN dropped(<<>>)
        ELSE UNION { matched(selected(u)) : u \in RollDraws }

\* one iteration of the loop of the innermost activation
RollOnce ==
    /\ query.fn = "roll"
    /\ query.outcome = RollPending
    /\ query.stack # <<>>
    /\ query.stack[Len(query.stack)].remaining > 0
    /\ query' \in roll_iteration(query, TheRegistry)
    /\ UNCHANGED <<defender, ops, call_vars, registry_vars, aggregator_vars>>

\* Ok(drops) of the innermost activation: drops.extend(nested_drops) in its caller
ReturnDrops(stack) ==
    IF Len(stack) = 1 THEN <<>>
    ELSE [SubSeq(stack, 1, Len(stack) - 1) EXCEPT
             ![Len(stack) - 1] = [@ EXCEPT !.drops = @ \o stack[Len(stack)].drops]]

\* the innermost activation has no roll left and returns Ok(drops)
ReturnOk ==
    /\ query.fn = "roll"
    /\ query.outcome = RollPending
    /\ query.stack # <<>>
    /\ query.stack[Len(query.stack)].remaining = 0
    /\ query' = [query EXCEPT
                    !.stack = ReturnDrops(query.stack),
                    !.outcome = IF Len(query.stack) = 1
                                THEN RollOk(query.stack[1].drops) ELSE RollPending]
    /\ UNCHANGED <<defender, ops, call_vars, registry_vars, aggregator_vars>>

NextRoll ==
    \/ Roll
    \/ RollOnce
    \/ ReturnOk

SpecRoll == InitRoll /\ [][NextRoll]_vars

-----------------------------------------------------------------------------
(* Effect::tick taken one pass of its while loop at a time (types.rs), on  *)
(* an effect that Effect::from_config built from a DotConfig.  The         *)
(* tick_rate of a DotConfig is the number the configuration text holds;    *)
(* from_config hands it to new_ailment, and neither of them checks it.     *)

MaxIterations == 6

\* DotConfigs of a loaded configuration: two of the installed ones, one whose
\* tick_rate is 0 and one whose tick_rate is negative
TickConfigs ==
    { DOT_REGISTRY.poison, DOT_REGISTRY.bleed,
      [DOT_REGISTRY.poison EXCEPT !.id = "stalled", !.tick_rate = Zero],
      [DOT_REGISTRY.poison EXCEPT !.id = "reversed", !.tick_rate = Frac(-1, 2)] }

\* the effects ticked: one-second ailments with and without damage, and a buff
TickEffects ==
    { from_config(config, "Poison", One, One, dot_dps, "attacker") :
          config \in TickConfigs, dot_dps \in {Zero, R(10)} }
    \cup { new_stat_modifier("buff", "Buff", One, FALSE, <<>>, "ally") }

TickCallDeltas == TickDeltas \cup {Zero}

\* self.duration_remaining > 0.0 && self.stacks > 0
is_active(effect) == Gt(effect.duration_remaining, Zero) /\ effect.stacks > 0

\* if *dot_dps > 0.0 on the Ailment arm of the match
tick_runs(effect) == is_ailment(effect) /\ Gt(effect.dot_dps, Zero)

\* *time_until_tick <= 0.0 && self.duration_remaining > 0.0, on the arm that loops
tick_condition(effect) ==
    /\ tick_runs(effect)
    /\ Le(effect.time_until_tick, Zero)
    /\ Gt(effect.duration_remaining, Zero)

InitTick ==
    /\ defender = Block(0, 0, 0, 0, 0, 0, <<0, 0>>)
    /\ new_defender = defender
    /\ packet = NoPacket
    /\ result = CombatResult_new
    /\ stages = NoStages
    /\ draws = <<>>
    /\ pc = "idle"
    /\ hits = 0
    /\ \E effect \in TickEffects :
           query = [fn |-> "none", effect |-> effect, delta |-> Zero,
                    damage_dealt |-> Zero, at |-> "idle", iterations |-> 0]
    /\ ops = 0
    /\ statics = InstalledStatics
    /\ threads = NoThreads
    /\ accumulator = NoAccumulator
    /\ applied_mods = <<>>

\* effect.tick(delta) is entered: damage_dealt = 0.0; *time_until_tick -= delta
TickCall(delta) ==
    /\ ops < MaxOps
    /\ query.at \in {"idle", "returned"}
    /\ query' = [query EXCEPT
                    !.fn = "tick", !.delta = delta, !.damage_dealt = Zero,
                    !.iterations = 0, !.at = "while",
                    !.effect = IF tick_runs(query.effect)
                               THEN [query.effect EXCEPT
                                        !.time_until_tick = Sub(@, delta)]
                               ELSE query.effect]
    /\ ops' = ops + 1
    /\ UNCHANGED <<defender, call_vars, registry_vars, aggregator_vars>>

\* one pass through the body of the while loop
TickIterate ==
    /\ query.at = "while"
    /\ tick_condition(query.effect)
    /\ query.iterations < MaxIterations
    /\ query' = [query EXCEPT
                    !.damage_dealt =
                        Add(@, Mul(Mul(Mul(query.effect.dot_dps, query.effect.tick_rate),
                                       R(query.effect.stacks)),
                                   query.effect.effectiveness)),
                    !.effect.time_until_tick = Add(@, query.effect.tick_rate),
                    !.iterations = @ + 1]
    /\ UNCHANGED <<defender, ops, call_vars, registry_vars, aggregator_vars>>

\* the loop is left (or was never entered): self.duration_remaining -= delta;
\* damage_dealt is returned
TickReturn ==
    /\ query.at = "while"
    /\ ~tick_condition(query.effect)
    /\ query' = [query EXCEPT
                    !.effect.duration_remaining = Sub(@, query.delta),
                    !.at = "returned"]
    /\ UNCHANGED <<defender, ops, call_vars, registry_vars, aggregator_vars>>

NextTick ==
    \/ \E delta \in TickCallDeltas : TickCall(delta)
    \/ TickIterate
    \/ TickReturn

SpecTick == InitTick /\ [][NextTick]_vars

-----------------------------------------------------------------------------
(* Properties of resolve_damage                                            *)

\* C1: a call of resolve_damage leaves the caller's defender unchanged (life,
\* energy shield, status_buildup and effects included); the changes are in
\* the returned StatBlock only.
C1_DefenderUnchanged ==
    [][pc = "idle" /\ pc' = "returned" => defender' = defender]_vars

\* a call has returned a StatBlock whose life, energy shield, buildup and
\* effects all differ from the caller's
C1_Witness ==
    /\ pc = "returned"
    /\ new_defender.current_life # defender.current_life
    /\ new_defender.current_energy_shield # defender.current_energy_shield
    /\ new_defender.status_buildup # defender.status_buildup
    /\ new_defender.effects # defender.effects

\* C2: a dodged spell packet returns the input defender and a result that
\* only carries was_dodged and the before/after life and energy shield, no
\* later step having run; the dodge happens exactly when the packet is a
\* spell, the spell dodge chance is positive and the draw is below it, so a
\* packet that is not a spell is never dodged.
C2_DodgeReturnsUnchanged ==
    pc = "returned" =>
        LET chance == Div(computed_spell_dodge_chance(defender), R(100))
            rolls == packet.is_spell /\ Gt(chance, Zero)
        IN  /\ result.was_dodged <=> (rolls /\ Lt(draws[1], chance))
            /\ ~packet.is_spell => ~result.was_dodged
            /\ result.was_dodged =>
                 /\ new_defender = defender
                 /\ result = [CombatResult_new EXCEPT
                                 !.was_dodged = TRUE,
                                 !.es_before = defender.current_energy_shield,
                                 !.es_after = defender.current_energy_shield,
                                 !.life_before = defender.current_life,
                                 !.life_after = defender.current_life]
                 /\ stages = NoStages
                 /\ Len(draws) = 1

\* a spell packet carrying damage and a pending status was dodged by a
\* defender that could block
C2_Witness ==
    /\ pc = "returned"
    /\ result.was_dodged
    /\ packet.damages # <<>>
    /\ packet.status_effects_to_apply # <<>>
    /\ Gt(defender.block_chance, Zero)

\* C3: the mitigation stages run in the order resistance, armour, physical
\* DR, evasion cap, block, global DR, each on the previous stage's output:
\* armour works on the amounts left by resistance, physical DR (clamped to
\* [0, 90] percent) is taken from the armour-reduced physical amount, the
\* evasion cap is compared with the sum after armour and physical DR, block
\* is subtracted from the post-evasion amounts, global DR (clamped to
\* [0, 90] percent) multiplies the post-block amounts, and total_damage is
\* the sum of what the last stage leaves.
C3_PipelineOrder ==
    (pc = "returned" /\ ~result.was_dodged) =>
        LET n == Len(packet.damages)
            p == FindPhysical(stages.after_resist)
            Final(name, k) == stages[name][k].final_amount
            pdr == Div(Clamp(defender.physical_damage_reduction, Zero, R(90)), R(100))
            gdr == Div(Clamp(defender.reduced_damage_taken, Zero, R(90)), R(100))
            cap == Div(packet.accuracy, Add(One, Div(defender.evasion, R(scale_factor))))
            sum_pre_evasion == SumFinal(stages.after_phys_dr)
            sum_post_evasion == SumFinal(stages.after_evasion)
        IN  /\ \A name \in DOMAIN stages : Len(stages[name]) = n
            /\ \A k \in 1..n :
                 Final("after_resist", k) =
                     IF packet.damages[k].damage_type = "Physical"
                     THEN packet.damages[k].amount
                     ELSE calculate_resistance_mitigation(
                              packet.damages[k].amount,
                              resistance(defender, packet.damages[k].damage_type),
                              penetration(packet, packet.damages[k].damage_type))
            /\ \A k \in 1..n :
                 Final("after_armour", k) =
                     IF k = p
                     THEN calculate_armour_reduction(defender.armour, Final("after_resist", k))
                     ELSE Final("after_resist", k)
            /\ \A k \in 1..n :
                 Final("after_phys_dr", k) =
                     IF k = p
                     THEN Mul(Final("after_armour", k), Sub(One, pdr))
                     ELSE Final("after_armour", k)
            /\ result.damage_reduced_by_physical_dr =
                   IF p # 0 THEN Mul(Max(Final("after_armour", p), Zero), pdr) ELSE Zero
            /\ result.triggered_evasion_cap <=> Gt(sum_pre_evasion, cap)
            /\ sum_post_evasion = Min(sum_pre_evasion, cap)
            /\ SumFinal(stages.after_block) =
                   Sub(sum_post_evasion,
                       IF result.was_blocked
                       THEN Min(result.damage_blocked, sum_post_evasion)
                       ELSE Zero)
            /\ \A k \in 1..n :
                 Final("after_dr", k) = Mul(Final("after_block", k), Sub(One, gdr))
            /\ result.damage_taken = stages.after_dr
            /\ result.total_damage = SumFinal(stages.after_dr)

\* a hit with a physical and an elemental part went through all six stages,
\* each of them changing the amounts, and damage was left at the end
C3_Witness ==
    /\ pc = "returned"
    /\ ~result.was_dodged
    /\ Len(packet.damages) = 2
    /\ stages.after_resist[2].final_amount # packet.damages[2].amount
    /\ stages.after_armour # stages.after_resist
    /\ stages.after_phys_dr # stages.after_armour
    /\ stages.after_evasion # stages.after_phys_dr
    /\ stages.after_block # stages.after_evasion
    /\ stages.after_dr # stages.after_block
    /\ Gt(result.total_damage, Zero)

\* C4: calculate_effective_resistance(resist, pen) clamps resist to
\* [min_value, max_cap]; at the cap (overcapped input included) it yields
\* max_cap - pen * penetration_vs_capped, otherwise clamped resist - pen; the
\* value returned is within [min_value, max_cap] for every resist and pen.
\* (100, 30) -> 85, (120, 30) -> 85, (75, 25) -> 50, (100, 300) >= min_value,
\* and mitigating 100 damage at 100 resistance with 30 penetration leaves 15.
C4_EffectiveResistance ==
    /\ query.fn = "calculate_effective_resistance" =>
        LET resist == query.resistance
            pen == query.penetration
            lo == R(min_value)
            hi == R(max_cap)
            clamped == IF Lt(resist, lo) THEN lo ELSE IF Gt(resist, hi) THEN hi ELSE resist
            rule == IF clamped = hi
                    THEN Sub(hi, Mul(pen, penetration_vs_capped))
                    ELSE Sub(clamped, pen)
        IN  /\ Ge(query.out, lo)
            /\ Le(query.out, hi)
            /\ (Ge(rule, lo) /\ Le(rule, hi)) => query.out = rule
            /\ Lt(rule, lo) => query.out = lo
            /\ Gt(rule, hi) => query.out = hi
            /\ (resist = R(100) /\ pen = R(30)) => query.out = R(85)
            /\ (resist = R(120) /\ pen = R(30)) => query.out = R(85)
            /\ (resist = R(75) /\ pen = R(25)) => query.out = R(50)
            /\ (resist = R(100) /\ pen = R(300)) => Ge(query.out, lo)
    /\ (/\ query.fn = "calculate_resistance_mitigation"
        /\ query.damage = R(100)
        /\ query.resistance = R(100)
        /\ query.penetration = R(30)) => query.out = R(15)

\* the function was called with an overcapped resistance and a penetration
\* that the capped rule halves
C4_Witness ==
    /\ query.fn = "calculate_effective_resistance"
    /\ query.resistance = R(120)
    /\ query.penetration = R(30)
    /\ query.out = R(85)

\* C5: in the resistance step every non-physical entry becomes
\* raw * (1 - effective_resist / 100), never below 0 and 0 when raw <= 0,
\* each type with its own resistance and penetration (100 at -50 -> 150,
\* 100 at 50 -> 50, 100 at 100 -> 0, fire 100 at 50 plus cold 100 at 25 ->
\* 125 in total); a physical entry leaves the step with its raw amount.
C5_ResistanceStep ==
    (pc = "returned" /\ ~result.was_dodged) =>
        LET taken == stages.after_resist
        IN  /\ Len(taken) = Len(packet.damages)
            /\ \A k \in DOMAIN taken :
                 LET type == packet.damages[k].damage_type
                     raw == packet.damages[k].amount
                     resist == IF type = "Physical" THEN Zero
                               ELSE defender.resistances[type]
                     pen == penetration(packet, type)
                     effective == calculate_effective_resistance(resist, pen)
                     final == taken[k].final_amount
                 IN  /\ taken[k].damage_type = type
                     /\ taken[k].raw_amount = raw
                     /\ Ge(final, Zero)
                     /\ type = "Physical" => final = raw
                     /\ (type # "Physical" /\ Le(raw, Zero)) => final = Zero
                     /\ (type # "Physical" /\ Gt(raw, Zero)) =>
                            final = Mul(raw, Sub(One, Div(effective, R(100))))
                     /\ (type # "Physical" /\ raw = R(100) /\ pen = Zero) =>
                            /\ resist = R(-50) => final = R(150)
                            /\ resist = R(50) => final = R(50)
                            /\ resist = R(100) => final = Zero
            /\ (/\ packet.damages = <<Dmg("Fire", 100), Dmg("Cold", 100)>>
                /\ packet.fire_pen = Zero /\ packet.cold_pen = Zero
                /\ defender.resistances["Fire"] = R(50)
                /\ defender.resistances["Cold"] = R(25)) => SumFinal(taken) = R(125)

\* a hit carrying a physical and a fire part reached the resistance step of
\* an armoured defender: the fire part was halved, the physical part was not
\* touched
C5_Witness ==
    /\ pc = "returned"
    /\ ~result.was_dodged
    /\ packet.damages = <<Dmg("Physical", 100), Dmg("Fire", 100)>>
    /\ Gt(defender.armour, Zero)
    /\ stages.after_resist[1].final_amount = R(100)
    /\ stages.after_resist[2].final_amount = R(50)

\* C6: with armour > 0 and physical damage > 0 after the resistance step,
\* damage_reduced_by_armour > 0 and the physical amount drops strictly, the
\* fraction removed being armour / (armour + damage_constant * damage); for
\* the same damage a larger armour never removes less; armour 0 removes
\* nothing; armour never changes a non-physical amount.
C6_ArmourStep ==
    (pc = "returned" /\ ~result.was_dodged) =>
        LET p == FindPhysical(stages.after_resist)
            armour == defender.armour
            Removed(a, damage) ==
                Mul(damage, Div(a, Add(a, Mul(R(damage_constant), damage))))
        IN  /\ \A k \in DOMAIN stages.after_resist :
                 k # p => stages.after_armour[k] = stages.after_resist[k]
            /\ p = 0 => result.damage_reduced_by_armour = Zero
            /\ p # 0 =>
                 LET incoming == stages.after_resist[p].final_amount
                     outgoing == stages.after_armour[p].final_amount
                 IN  /\ (Gt(armour, Zero) /\ Gt(incoming, Zero)) =>
                            /\ Gt(result.damage_reduced_by_armour, Zero)
                            /\ Lt(outgoing, incoming)
                            /\ result.damage_reduced_by_armour = Sub(incoming, outgoing)
                            /\ Sub(incoming, outgoing) = Removed(armour, incoming)
                            /\ \A other \in {1, 500, 1000, 2000, 100000} :
                                 /\ Ge(R(other), armour) =>
                                      Ge(Sub(incoming,
                                             calculate_armour_reduction(R(other), incoming)),
                                         result.damage_reduced_by_armour)
                                 /\ Le(R(other), armour) =>
                                      Le(Sub(incoming,
                                             calculate_armour_reduction(R(other), incoming)),
                                         result.damage_reduced_by_armour)
                     /\ armour = Zero =>
                            /\ outgoing = incoming
                            /\ result.damage_reduced_by_armour = Zero

\* an armoured defender took a hit with a physical and an elemental part:
\* armour removed part of the physical amount
C6_Witness ==
    /\ pc = "returned"
    /\ ~result.was_dodged
    /\ Gt(defender.armour, Zero)
    /\ Len(packet.damages) = 2
    /\ packet.damages[1].damage_type = "Physical"
    /\ Gt(stages.after_resist[2].final_amount, Zero)
    /\ Gt(result.damage_reduced_by_armour, Zero)
    /\ Lt(stages.after_armour[1].final_amount, stages.after_resist[1].final_amount)

\* C7: when the sum after armour and physical DR exceeds
\* cap = accuracy / (1 + evasion / scale_factor), triggered_evasion_cap is
\* set, damage_prevented_by_evasion is the excess, and every type's amount
\* is multiplied by the same ratio cap / sum, so the post-evasion sum is the
\* cap and the proportions are kept; otherwise no amount changes and the
\* flag stays false (evasion 1000, accuracy 2000, 1500 fire -> total 1000,
\* 500 evaded).
C7_EvasionCap ==
    (pc = "returned" /\ ~result.was_dodged) =>
        LET before == stages.after_phys_dr
            after == stages.after_evasion
            sum == SumFinal(before)
            cap == Div(packet.accuracy, Add(One, Div(defender.evasion, R(scale_factor))))
        IN  /\ Gt(sum, cap) =>
                 /\ result.triggered_evasion_cap
                 /\ result.damage_prevented_by_evasion = Sub(sum, cap)
                 /\ \A k \in DOMAIN before :
                      after[k].final_amount = Mul(before[k].final_amount, Div(cap, sum))
                 /\ SumFinal(after) = cap
                 /\ \A j, k \in DOMAIN before :
                      Mul(after[j].final_amount, before[k].final_amount) =
                      Mul(after[k].final_amount, before[j].final_amount)
            /\ ~Gt(sum, cap) =>
                 /\ ~result.triggered_evasion_cap
                 /\ result.damage_prevented_by_evasion = Zero
                 /\ after = before
            /\ (/\ defender.evasion = R(1000)
                /\ packet.accuracy = R(2000)
                /\ sum = R(1500)
                /\ ~result.was_blocked
                /\ defender.reduced_damage_taken = Zero) =>
                 /\ result.total_damage = R(1000)
                 /\ result.damage_prevented_by_evasion = R(500)
                 /\ result.triggered_evasion_cap

\* a hit of two types exceeded the cap of an evasive defender and both
\* amounts were scaled down
C7_Witness ==
    /\ pc = "returned"
    /\ ~result.was_dodged
    /\ result.triggered_evasion_cap
    /\ Gt(defender.evasion, Zero)
    /\ Len(packet.damages) = 2
    /\ \A k \in 1..2 :
         /\ Gt(stages.after_evasion[k].final_amount, Zero)
         /\ Lt(stages.after_evasion[k].final_amount, stages.after_phys_dr[k].final_amount)

\* C8: a successful block roll sets was_blocked and removes
\* min(block_amount, post-evasion total) from the damage, every type losing
\* the same fraction and none going below 0 (a block amount at or above the
\* total leaves 0); when the roll fails, or the block chance is 0 and no
\* roll is made, was_blocked stays false and no amount changes.
C8_BlockStep ==
    (pc = "returned" /\ ~result.was_dodged) =>
        LET before == stages.after_evasion
            after == stages.after_block
            total == SumFinal(before)
            chance == Div(computed_block_chance(defender), R(100))
            dodge_rolls == IF packet.is_spell
                              /\ Gt(computed_spell_dodge_chance(defender), Zero)
                           THEN 1 ELSE 0
            status_rolls ==
                Cardinality({i \in DOMAIN packet.status_effects_to_apply :
                    LET config == DotRegistry_get(dot_registry,
                            status_to_config_id(packet.status_effects_to_apply[i].effect_type))
                    IN  config = <<>> \/ config[1].application.type # "Buildup"})
            rolls == Gt(chance, Zero)
            success == rolls /\ Lt(draws[dodge_rolls + 1], chance)
            removed == Min(computed_block_amount(defender), total)
        IN  /\ Len(draws) = dodge_rolls + (IF rolls THEN 1 ELSE 0) + status_rolls
            /\ result.was_blocked <=> success
            /\ success =>
                 /\ SumFinal(after) = Sub(total, removed)
                 /\ \A k \in DOMAIN before :
                      /\ Ge(after[k].final_amount, Zero)
                      /\ Gt(total, Zero) =>
                           after[k].final_amount =
                               Mul(before[k].final_amount,
                                   Sub(One, Div(removed, total)))
                      /\ Ge(computed_block_amount(defender), total) =>
                           after[k].final_amount = Zero
            /\ ~success =>
                 /\ after = before
                 /\ result.damage_blocked = Zero

\* a block roll succeeded against a hit of two types larger than the block
\* amount, and both types lost part of their amount
C8_Witness ==
    /\ pc = "returned"
    /\ ~result.was_dodged
    /\ result.was_blocked
    /\ Len(packet.damages) = 2
    /\ Gt(SumFinal(stages.after_evasion), computed_block_amount(defender))
    /\ \A k \in 1..2 :
         /\ Gt(stages.after_block[k].final_amount, Zero)
         /\ Lt(stages.after_block[k].final_amount, stages.after_evasion[k].final_amount)

\* C9 as stated: total_damage is taken from the energy shield first and the
\* remainder from life: damage_blocked_by_es = min(total_damage, es_before),
\* es_after = es_before - damage_blocked_by_es, life ends at life_before
\* less the remainder (clamped at 0), and life is unchanged whenever the
\* energy shield covers the whole hit.
C9_AsStated ==
    (pc = "returned" /\ ~result.was_dodged) =>
        LET remainder == Sub(result.total_damage, result.damage_blocked_by_es)
        IN  /\ result.damage_blocked_by_es = Min(result.total_damage, result.es_before)
            /\ result.es_after = Sub(result.es_before, result.damage_blocked_by_es)
            /\ result.life_after = Max(Sub(result.life_before, remainder), Zero)
            /\ remainder = Zero => result.life_after = result.life_before

\* C9: total_damage is taken from the energy shield first and the remainder
\* from life: damage_blocked_by_es = min(total_damage, es_before),
\* es_after = es_before - damage_blocked_by_es, and, unless the hit culls,
\* life ends at life_before less the remainder (clamped at 0) and is
\* unchanged whenever the energy shield covers the whole hit (ES 50, life
\* 100, 75 damage -> ES 0, life 75); a hit that culls leaves life at 0.
C9_EsThenLife ==
    (pc = "returned" /\ ~result.was_dodged) =>
        LET remainder == Sub(result.total_damage, result.damage_blocked_by_es)
        IN  /\ result.damage_blocked_by_es = Min(result.total_damage, result.es_before)
            /\ result.es_after = Sub(result.es_before, result.damage_blocked_by_es)
            /\ result.es_before = defender.current_energy_shield
            /\ result.life_before = defender.current_life
            /\ result.es_after = new_defender.current_energy_shield
            /\ result.life_after = new_defender.current_life
            /\ ~result.culled =>
                 /\ result.life_after = Max(Sub(result.life_before, remainder), Zero)
                 /\ remainder = Zero => result.life_after = result.life_before
            /\ result.culled =>
                 /\ result.life_after = Zero
                 /\ Gt(Sub(result.life_before, remainder), Zero)
            /\ (/\ result.es_before = R(50)
                /\ result.life_before = R(100)
                /\ result.total_damage = R(75)
                /\ ~result.culled) =>
                 /\ result.es_after = Zero
                 /\ result.life_after = R(75)

\* a hit of 75 met an energy shield of 50 over a life of 100: the shield
\* absorbed 50 and life took the other 25
C9_Witness ==
    /\ pc = "returned"
    /\ ~result.was_dodged
    /\ ~result.culled
    /\ result.es_before = R(50)
    /\ result.life_before = R(100)
    /\ result.total_damage = R(75)
    /\ result.damage_blocked_by_es = R(50)
    /\ result.life_after = R(75)

\* C10: over any sequence of calls threaded through the returned defender,
\* current_life and current_energy_shield are never negative and never
\* larger than before the call; in every resolution that is not dodged
\* is_killing_blow holds exactly when life_after = 0, a hit on a defender
\* whose life was already 0 included.
C10_LifeAndShieldBounds ==
    /\ Ge(defender.current_life, Zero)
    /\ Ge(defender.current_energy_shield, Zero)
    /\ Ge(new_defender.current_life, Zero)
    /\ Ge(new_defender.current_energy_shield, Zero)
    /\ pc = "returned" =>
         /\ Le(new_defender.current_life, defender.current_life)
         /\ Le(new_defender.current_energy_shield, defender.current_energy_shield)
         /\ ~result.was_dodged =>
              (result.is_killing_blow <=> result.life_after = Zero)

\* the second of two threaded hits landed on a defender whose life the first
\* had brought to 0, and was flagged a killing blow
C10_Witness ==
    /\ pc = "returned"
    /\ hits = 2
    /\ ~result.was_dodged
    /\ result.life_before = Zero
    /\ Gt(result.total_damage, Zero)
    /\ result.is_killing_blow
    /\ result.life_after = Zero

\* C11: culled is set only when the packet's culling_strike is positive, the
\* hit's own damage left the defender alive, and the life percent after the
\* damage is at or below culling_strike; a culled hit is a killing blow with
\* life_after = 0; culling_strike = 0 never culls; life_gained_on_kill and
\* mana_gained_on_kill are the packet's life_on_kill and mana_on_kill on a
\* killing blow (by damage or by culling) and 0 otherwise.
C11_CullingAndOnKill ==
    (pc = "returned" /\ ~result.was_dodged) =>
        LET remainder == Sub(result.total_damage, result.damage_blocked_by_es)
            life_after_damage == Sub(result.life_before, remainder)
            percent_after_damage ==
                Mul(Div(life_after_damage, computed_max_life(defender)), R(100))
        IN  /\ result.culled =>
                 /\ Gt(packet.culling_strike, Zero)
                 /\ Gt(life_after_damage, Zero)
                 /\ Le(percent_after_damage, packet.culling_strike)
                 /\ result.is_killing_blow
                 /\ result.life_after = Zero
                 /\ new_defender.current_life = Zero
            /\ packet.culling_strike = Zero => ~result.culled
            /\ result.is_killing_blow =>
                 /\ result.life_gained_on_kill = packet.life_on_kill
                 /\ result.mana_gained_on_kill = packet.mana_on_kill
            /\ ~result.is_killing_blow =>
                 /\ result.life_gained_on_kill = Zero
                 /\ result.mana_gained_on_kill = Zero
                 /\ ~result.culled

\* a culling packet (threshold 50) left a defender of 100 life at 30 and
\* culled it: life ends at 0 and the on-kill gains are handed out
C11_Witness ==
    /\ pc = "returned"
    /\ ~result.was_dodged
    /\ result.culled
    /\ packet.culling_strike = R(50)
    /\ result.life_before = R(100)
    /\ Sub(result.total_damage, result.damage_blocked_by_es) = R(70)
    /\ result.life_after = Zero
    /\ result.is_killing_blow
    /\ result.life_gained_on_kill = R(5)
    /\ result.mana_gained_on_kill = R(3)

\* C12: for every defender and every packet whose raw amounts are >= 0 (the
\* empty packet and all-zero amounts included) the resolution returns a
\* well-formed result: one entry per damage of the packet, every
\* final_amount at every step and total_damage finite and >= 0; and when the
\* total before evasion (or before block) is 0, the proportional evasion (or
\* block) step leaves the amounts as they were instead of dividing.
C12_WellFormedResult ==
    (pc = "returned" /\ ~result.was_dodged) =>
        LET names == {"after_resist", "after_armour", "after_phys_dr",
                      "after_evasion", "after_block", "after_dr"}
        IN  /\ \A k \in DOMAIN packet.damages : Ge(packet.damages[k].amount, Zero)
            /\ Len(result.damage_taken) = Len(packet.damages)
            /\ \A name \in names :
                 /\ Len(stages[name]) = Len(packet.damages)
                 /\ \A k \in DOMAIN stages[name] :
                      /\ stages[name][k].final_amount.d > 0
                      /\ Ge(stages[name][k].final_amount, Zero)
            /\ \A k \in DOMAIN result.damage_taken :
                 /\ result.damage_taken[k].final_amount.d > 0
                 /\ Ge(result.damage_taken[k].final_amount, Zero)
                 /\ result.damage_taken[k].damage_type = packet.damages[k].damage_type
            /\ result.total_damage.d > 0
            /\ Ge(result.total_damage, Zero)
            /\ result.total_damage = SumFinal(result.damage_taken)
            /\ SumFinal(stages.after_phys_dr) = Zero =>
                 /\ stages.after_evasion = stages.after_phys_dr
                 /\ ~result.triggered_evasion_cap
                 /\ result.damage_prevented_by_evasion = Zero
            /\ SumFinal(stages.after_evasion) = Zero =>
                 /\ stages.after_block = stages.after_evasion
                 /\ result.total_damage = Zero

\* a packet of two zero amounts was blocked: the block step had nothing to
\* share out and the result is a hit of 0
C12_Witness ==
    /\ pc = "returned"
    /\ ~result.was_dodged
    /\ Len(packet.damages) = 2
    /\ \A k \in DOMAIN packet.damages : packet.damages[k].amount = Zero
    /\ result.was_blocked
    /\ Gt(result.damage_blocked, Zero)
    /\ stages.after_block = stages.after_evasion
    /\ result.total_damage = Zero
    /\ result.life_after = result.life_before

\* C13: for a status whose DotConfig application is Buildup{threshold}, every
\* non-dodged hit threaded through the returned defender leaves the
\* accumulator of that status at its previous value plus the status_damage
\* of the request minus one threshold per application: the request applies
\* the effect exactly when the accumulator after the addition is at or above
\* the threshold, once, keeping the remainder (a request worth two or more
\* thresholds leaves the accumulator at or above the threshold); a status
\* without a request keeps its accumulator, statuses that are not buildup
\* based have none, and the draws taken are those of the dodge, the block
\* and the chance based requests only.
C13_BuildupAccumulator ==
    (pc = "returned" /\ ~result.was_dodged) =>
        LET requests == packet.status_effects_to_apply
            IsBuildup(st) ==
                LET config == DotRegistry_get(dot_registry, status_to_config_id(st))
                IN  config # <<>> /\ config[1].application.type = "Buildup"
            Accumulated(block, st) ==
                IF st \in DOMAIN block.status_buildup
                THEN block.status_buildup[st] ELSE Zero
        IN  /\ \A st \in StatusEffect :
                 LET reqs == {i \in DOMAIN requests : requests[i].effect_type = st}
                     applications ==
                         Cardinality({j \in DOMAIN result.effects_applied :
                                         result.effects_applied[j].status = st})
                     before == Accumulated(defender, st)
                     after == Accumulated(new_defender, st)
                 IN  IF IsBuildup(st)
                     THEN LET threshold ==
                                  DotRegistry_get(dot_registry,
                                      status_to_config_id(st))[1].application.threshold
                          IN  /\ Cardinality(reqs) <= 1
                              /\ reqs = {} =>
                                   /\ after = before
                                   /\ applications = 0
                                   /\ st \in DOMAIN new_defender.status_buildup
                                        <=> st \in DOMAIN defender.status_buildup
                              /\ \A i \in reqs :
                                   LET added == requests[i].status_damage
                                       crossed == Ge(Add(before, added), threshold)
                                   IN  /\ applications = (IF crossed THEN 1 ELSE 0)
                                       /\ after = Sub(Add(before, added),
                                                      IF crossed THEN threshold ELSE Zero)
                                       /\ Ge(added, Mul(R(2), threshold)) =>
                                            (applications = 1 /\ Ge(after, threshold))
                     ELSE st \notin DOMAIN new_defender.status_buildup
            /\ Len(draws) =
                 (IF packet.is_spell /\ Gt(computed_spell_dodge_chance(defender), Zero)
                  THEN 1 ELSE 0)
                 + (IF Gt(computed_block_chance(defender), Zero) THEN 1 ELSE 0)
                 + Cardinality({i \in DOMAIN requests : ~IsBuildup(requests[i].effect_type)})

\* the second of two threaded hits adding 60 poison each crossed the
\* threshold of 100: poison was applied once and 20 is kept, while bleed,
\* fed 250 per hit, sits above its threshold after its single application
C13_Witness ==
    /\ pc = "returned"
    /\ ~result.was_dodged
    /\ hits = 2
    /\ "Poison" \in DOMAIN defender.status_buildup
    /\ defender.status_buildup["Poison"] = R(60)
    /\ new_defender.status_buildup["Poison"] = R(20)
    /\ defender.status_buildup["Bleed"] = R(150)
    /\ new_defender.status_buildup["Bleed"] = R(300)
    /\ Len(result.effects_applied) = 2
    /\ result.effects_applied[1].status = "Poison"
    /\ result.effects_applied[2].status = "Bleed"

\* C14: the apply chance of a chance based request is status_damage /
\* maximum life x (1 + apply_chance_increased) clamped to [0, 1] (500 vs
\* 1000 life -> 0.5, with 0.2 increased -> 0.6, 900 with 0.5 increased ->
\* 1.0); the resolution measures it against the defender's computed maximum
\* life, not the life left after the hit, and applies the effect exactly
\* when the draw taken for the request is below the chance: a chance of 1
\* always applies, a chance of 0 never.
C14_ChanceApplication ==
    /\ calculate_apply_chance(PendingIncreased("Burn", 500, Zero), R(1000)) = Frac(1, 2)
    /\ calculate_apply_chance(PendingIncreased("Burn", 500, Frac(1, 5)), R(1000)) = Frac(3, 5)
    /\ calculate_apply_chance(PendingIncreased("Poison", 900, Frac(1, 2)), R(1000)) = One
    /\ (pc = "returned" /\ ~result.was_dodged) =>
         LET requests == packet.status_effects_to_apply
             IsBuildup(st) ==
                 LET config == DotRegistry_get(dot_registry, status_to_config_id(st))
                 IN  config # <<>> /\ config[1].application.type = "Buildup"
             earlier ==
                 (IF packet.is_spell /\ Gt(computed_spell_dodge_chance(defender), Zero)
                  THEN 1 ELSE 0)
                 + (IF Gt(computed_block_chance(defender), Zero) THEN 1 ELSE 0)
             DrawOf(i) ==
                 draws[earlier + Cardinality({j \in 1..i :
                                    ~IsBuildup(requests[j].effect_type)})]
         IN  \A i \in DOMAIN requests :
                 ~IsBuildup(requests[i].effect_type) =>
                     LET chance ==
                             Clamp(Mul(Div(requests[i].status_damage,
                                           computed_max_life(defender)),
                                       Add(One, requests[i].apply_chance_increased)),
                                   Zero, One)
                         applied ==
                             \E j \in DOMAIN result.effects_applied :
                                 result.effects_applied[j].status =
                                     requests[i].effect_type
                     IN  /\ applied <=> Lt(DrawOf(i), chance)
                         /\ chance = One => applied
                         /\ chance = Zero => ~applied

\* a burn request of 50 with 20% increased chance against a maximum life of
\* 100 (chance 0.6) met a draw of 1/4 and was applied although the hit had
\* brought life below 50; the chill request of chance 1 applied on a draw
\* of 3/4
C14_Witness ==
    /\ pc = "returned"
    /\ ~result.was_dodged
    /\ Len(packet.status_effects_to_apply) = 2
    /\ packet.status_effects_to_apply[1].effect_type = "Burn"
    /\ computed_max_life(defender) = R(100)
    /\ Lt(result.life_after, R(50))
    /\ Len(draws) >= 2
    /\ draws[Len(draws) - 1] = Frac(1, 4)
    /\ draws[Len(draws)] = Frac(3, 4)
    /\ Len(result.effects_applied) = 2
    /\ result.effects_applied[1].status = "Burn"
    /\ result.effects_applied[2].status = "Chill"

\* C15: a pending status without an entry in the initialized DoT registry
\* raises no error: the request is decided by the chance rule and an applied
\* effect is an ailment whose id and name are the status id, with tick rate
\* 0.5, StrongestOnly stacking, 1 stack, effectiveness 1 and the request's
\* duration, magnitude and DoT DPS; for such a status (also under the empty
\* registry) the base duration is 2.0 and the base damage percent 0, so the
\* request calculate_damage builds lasts 2.0 x (1 + duration increased) and
\* has a DoT DPS of 0.
C15_MissingConfigFallback ==
    LET NoEntry(registry, st) ==
            DotRegistry_get(registry, status_to_config_id(st)) = <<>>
    IN  /\ \A st \in StatusEffect :
             /\ get_base_duration(DotRegistry_new, st) = R(2)
             /\ get_base_damage_percent(DotRegistry_new, st) = Zero
             /\ NoEntry(dot_registry, st) =>
                  /\ get_base_duration(dot_registry, st) = R(2)
                  /\ get_base_damage_percent(dot_registry, st) = Zero
        /\ (pc = "returned" /\ ~result.was_dodged) =>
             LET requests == packet.status_effects_to_apply
                 earlier ==
                     (IF packet.is_spell /\ Gt(computed_spell_dodge_chance(defender), Zero)
                      THEN 1 ELSE 0)
                     + (IF Gt(computed_block_chance(defender), Zero) THEN 1 ELSE 0)
                 DrawOf(i) ==
                     draws[earlier + Cardinality({j \in 1..i :
                         LET config == DotRegistry_get(dot_registry,
                                 status_to_config_id(requests[j].effect_type))
                         IN  config = <<>> \/ config[1].application.type # "Buildup"})]
             IN  \A i \in DOMAIN requests :
                     LET st == requests[i].effect_type
                         applied == {j \in DOMAIN result.effects_applied :
                                        result.effects_applied[j].status = st}
                     IN  NoEntry(dot_registry, st) =>
                           /\ (applied # {}) <=>
                                  Lt(DrawOf(i), calculate_apply_chance(requests[i],
                                                    computed_max_life(defender)))
                           /\ Gt(requests[i].status_damage, Zero) =>
                                /\ requests[i].duration =
                                       Mul(R(2), Add(One, AttackerStatusStats.duration_increased))
                                /\ requests[i].dot_dps = Zero
                           /\ \A j \in applied :
                                LET effect == result.effects_applied[j]
                                IN  /\ effect.id = status_to_config_id(st)
                                    /\ effect.name = status_to_config_id(st)
                                    /\ effect.tick_rate = Frac(1, 2)
                                    /\ effect.time_until_tick = Frac(1, 2)
                                    /\ effect.stacking = [type |-> "StrongestOnly"]
                                    /\ effect.stacks = 1
                                    /\ effect.effectiveness = One
                                    /\ effect.duration_remaining = requests[i].duration
                                    /\ effect.total_duration = requests[i].duration
                                    /\ effect.magnitude = requests[i].magnitude
                                    /\ effect.dot_dps = requests[i].dot_dps
                                    /\ effect.source_id = packet.source_id
                                    /\ \E k \in DOMAIN new_defender.effects :
                                           new_defender.effects[k].id = effect.id

\* a chill request built by calculate_damage (no chill entry in the
\* registry: duration 2 x 1.5 = 3, DoT DPS 0) was applied as the fallback
\* ailment "chill"
C15_Witness ==
    /\ pc = "returned"
    /\ ~result.was_dodged
    /\ \E i \in DOMAIN packet.status_effects_to_apply :
           /\ packet.status_effects_to_apply[i].effect_type = "Chill"
           /\ packet.status_effects_to_apply[i].duration = R(3)
           /\ packet.status_effects_to_apply[i].dot_dps = Zero
    /\ \E j \in DOMAIN result.effects_applied :
           /\ result.effects_applied[j].id = "chill"
           /\ result.effects_applied[j].name = "chill"
           /\ result.effects_applied[j].status = "Chill"
           /\ result.effects_applied[j].tick_rate = Frac(1, 2)
           /\ result.effects_applied[j].duration_remaining = R(3)
           /\ result.effects_applied[j].dot_dps = Zero
    /\ \E k \in DOMAIN new_defender.effects : new_defender.effects[k].id = "chill"

-----------------------------------------------------------------------------
(* Properties of the Effect methods                                        *)

\* C16: tick(delta) on an ailment with dot_dps > 0 and duration_remaining > 0
\* takes delta from time_until_tick and returns k x dot_dps x tick_rate x
\* stacks x effectiveness, k being the number of times tick_rate has to be
\* added back to bring time_until_tick above 0 (a fresh effect starts at
\* tick_rate, so nothing is dealt before one full interval, and a delta over
\* several intervals emits them all in the one call); it returns 0 for a
\* stat-modifier effect, for dot_dps = 0 and for duration_remaining <= 0;
\* in every case duration_remaining drops by exactly delta and stacks, like
\* every other field, is unchanged.
C16_Tick ==
    query.fn = "tick" =>
        LET before == query.before
            after == defender.effects[query.index]
            delta == query.delta
            per_tick == Mul(Mul(Mul(before.dot_dps, before.tick_rate), R(before.stacks)),
                            before.effectiveness)
        IN  /\ after.duration_remaining = Sub(before.duration_remaining, delta)
            /\ after.stacks = before.stacks
            /\ DOMAIN after = DOMAIN before
            /\ \A f \in DOMAIN before \ {"duration_remaining", "time_until_tick"} :
                   after[f] = before[f]
            /\ (/\ is_ailment(before)
                /\ Gt(before.dot_dps, Zero)
                /\ Gt(before.duration_remaining, Zero)) =>
                 /\ Gt(after.time_until_tick, Zero)
                 /\ \E k \in 0..8 :
                        /\ query.damage_dealt = Mul(R(k), per_tick)
                        /\ after.time_until_tick =
                               Add(Sub(before.time_until_tick, delta),
                                   Mul(R(k), before.tick_rate))
                        /\ k > 0 => Le(Sub(after.time_until_tick, before.tick_rate), Zero)
                        /\ k = 0 => Gt(Sub(before.time_until_tick, delta), Zero)
                 /\ (before.time_until_tick = before.tick_rate
                     /\ Lt(delta, before.tick_rate)) => query.damage_dealt = Zero
            /\ (\/ ~is_ailment(before)
                \/ before.dot_dps = Zero
                \/ Le(before.duration_remaining, Zero)) =>
                 query.damage_dealt = Zero
            /\ (is_ailment(before) /\ before.dot_dps = Zero) =>
                 after.time_until_tick = before.time_until_tick

\* a poison of two stacks (10 DPS, tick rate 0.5) that had just been applied
\* was ticked by 1.25 seconds: two ticks of 10 were emitted in the one
\* call and the next is due in 0.25
C16_Witness ==
    /\ query.fn = "tick"
    /\ is_ailment(query.before)
    /\ query.before.status = "Poison"
    /\ query.before.stacks = 2
    /\ query.before.time_until_tick = Frac(1, 2)
    /\ query.delta = Frac(5, 4)
    /\ query.damage_dealt = R(20)
    /\ defender.effects[query.index].time_until_tick = Frac(1, 4)
    /\ defender.effects[query.index].duration_remaining = Frac(-1, 4)

-----------------------------------------------------------------------------
(* Properties of the configuration registries                              *)

\* C18: init_dot_registry reports every initialization failure: it returns
\* an error when the file cannot be read or parsed and also when the DoT
\* registry is already initialized, so that an initialization attempt on an
\* initialized registry never returns Ok.
C18_AsStated ==
    [][\A t \in Threads :
          (/\ threads'[t].done = threads[t].done + 1
           /\ threads'[t].ret.call \in {"init_dot_registry",
                                         "init_dot_registry_default"}) =>
              /\ threads[t].pc = "ready" => threads'[t].ret.result = "Err_load"
              /\ statics.DOT_REGISTRY # <<>> => threads'[t].ret.result # "Ok"]_vars

IsReturn(t, calls) ==
    /\ threads'[t].done = threads[t].done + 1
    /\ threads'[t].ret.call \in calls

\* C19 as stated: each registry goes uninitialized -> initialized-once under
\* every interleaving: a read while uninitialized panics, a later read
\* returns the first stored value, which no call replaces; init_constants
\* and init_constants_default on an initialized registry return a
\* ValidationError; an init whose load fails does not initialize.
C19_AsStated ==
    [][/\ \A reg \in DOMAIN statics :
             statics[reg] # <<>> => statics'[reg] = statics[reg]
       /\ \A t \in Threads :
             /\ IsReturn(t, {"constants"}) =>
                   threads'[t].ret.result =
                       IF statics.GAME_CONSTANTS = <<>> THEN "panic"
                       ELSE statics.GAME_CONSTANTS[1]
             /\ IsReturn(t, {"dot_registry"}) =>
                   threads'[t].ret.result =
                       IF statics.DOT_REGISTRY = <<>> THEN "panic"
                       ELSE statics.DOT_REGISTRY[1]
             /\ (IsReturn(t, {"init_constants", "init_constants_default"})
                 /\ statics.GAME_CONSTANTS # <<>>) =>
                   threads'[t].ret.result = "Err_ValidationError"
             /\ (IsReturn(t, {"init_constants", "init_dot_registry",
                              "init_dot_registry_default"})
                 /\ threads'[t].ret.result = "Err_load") =>
                   statics' = statics]_vars

\* C19 (amended): as above, except that on an initialized registry
\* init_constants returns the ValidationError only when its file loaded; when
\* the load fails it returns the load error, whether or not the registry is
\* initialized, and leaves the registry as it was.  An init that finds the
\* registry empty at its set stores the loaded value and returns Ok.
C19_RegistryLifecycle ==
    [][/\ \A reg \in DOMAIN statics :
             statics[reg] # <<>> => statics'[reg] = statics[reg]
       /\ \A t \in Threads :
             /\ IsReturn(t, {"constants"}) =>
                   threads'[t].ret.result =
                       IF statics.GAME_CONSTANTS = <<>> THEN "panic"
                       ELSE statics.GAME_CONSTANTS[1]
             /\ IsReturn(t, {"dot_registry"}) =>
                   threads'[t].ret.result =
                       IF statics.DOT_REGISTRY = <<>> THEN "panic"
                       ELSE statics.DOT_REGISTRY[1]
             /\ IsReturn(t, {"init_constants_default"}) =>
                   IF statics.GAME_CONSTANTS # <<>>
                   THEN threads'[t].ret.result = "Err_ValidationError"
                   ELSE /\ threads'[t].ret.result = "Ok"
                        /\ statics'.GAME_CONSTANTS = <<"default">>
             /\ IsReturn(t, {"init_constants"}) =>
                   IF threads[t].pc = "ready"
                   THEN /\ threads'[t].ret.result = "Err_load"
                        /\ statics' = statics
                   ELSE IF statics.GAME_CONSTANTS # <<>>
                   THEN threads'[t].ret.result = "Err_ValidationError"
                   ELSE /\ threads'[t].ret.result = "Ok"
                        /\ statics'.GAME_CONSTANTS = threads[t].loaded
             /\ (IsReturn(t, {"init_dot_registry", "init_dot_registry_default"})
                 /\ threads'[t].ret.result = "Err_load") =>
                   statics' = statics
             /\ IsReturn(t, {"ensure_constants_initialized"}) =>
                   statics'.GAME_CONSTANTS # <<>>
             /\ IsReturn(t, {"ensure_dot_registry_initialized"}) =>
                   statics'.DOT_REGISTRY # <<>>]_vars

\* a second init was refused with the ValidationError and a read of the other
\* thread returned the value the first init stored
C19_Witness ==
    /\ statics.GAME_CONSTANTS = <<"file">>
    /\ \E t, u \in Threads :
          /\ threads[t].ret = [call |-> "init_constants_default",
                               result |-> "Err_ValidationError"]
          /\ threads[u].ret = [call |-> "constants", result |-> "file"]

-----------------------------------------------------------------------------
(* Properties of the stat aggregation                                      *)

RECURSIVE apply_all(_, _, _)
apply_all(acc, mods, i) ==
    IF i > Len(mods) THEN acc
    ELSE apply_all(apply_stat_type(acc, mods[i][1], mods[i][2]), mods, i + 1)

Count(mods, mod) == Cardinality({ i \in DOMAIN mods : mods[i] = mod })

\* SampleModifiers, then the FoldModifiers that are not among them
FixedOrder ==
    SampleModifiers \o SelectSeq(FoldModifiers, LAMBDA m : m \notin Range(SampleModifiers))

\* the same multiset of modifiers in one fixed order: the order of
\* FixedOrder, each as often as it occurs in mods
RECURSIVE CanonicalFrom(_, _)
CanonicalFrom(mods, i) ==
    IF i > Len(FixedOrder) THEN <<>>
    ELSE [k \in 1..Count(mods, FixedOrder[i]) |-> FixedOrder[i]]
             \o CanonicalFrom(mods, i + 1)

CanonicalOrder(mods) == IF Len(mods) <= 1 THEN mods ELSE CanonicalFrom(mods, 1)

\* the places of an accumulator that hold a number: its f64 fields, the four
\* numbers of every status_stats entry, every conversion entry
Locations ==
    { <<"field", f, "">> : f \in ScalarFields }
    \cup { <<"status_stats", s, f>> : s \in StatusEffect,
              f \in {"dot_increased", "duration_increased", "magnitude", "max_stacks"} }
    \cup { <<"status_conversions", s, d>> : s \in StatusEffect, d \in DamageType }

\* the number at a place, 0 where the map has no entry
LocValue(acc, loc) ==
    CASE loc[1] = "field" -> acc[loc[2]]
      [] loc[1] = "status_stats" ->
            LET stats == GetOr(acc.status_stats, loc[2], StatusEffectStats_default)
            IN  IF loc[3] = "max_stacks" THEN R(stats.max_stacks) ELSE stats[loc[3]]
      [] loc[1] = "status_conversions" ->
            GetOr(GetOr(acc.status_conversions, loc[2], HashMap_new), loc[3], Zero)

Changed(before, after) ==
    { loc \in Locations : LocValue(after, loc) # LocValue(before, loc) }

\* one place grew by value, value / 100 or value as i32; nothing else moved
OneAdditiveUpdate(before, after, value) ==
    LET changed == Changed(before, after)
    IN  /\ Cardinality(changed) <= 1
        /\ \A loc \in changed :
              Sub(LocValue(after, loc), LocValue(before, loc))
                  \in {value, Div(value, R(100)), R(as_i32(value))}
        /\ changed = {} => as_i32(value) = 0
        /\ \A f \in MoreFields \cup {"weapon_elemental_damages"} : after[f] = before[f]
        /\ DOMAIN before.status_stats \subseteq DOMAIN after.status_stats
        /\ DOMAIN before.status_conversions \subseteq DOMAIN after.status_conversions
        /\ Cardinality(DOMAIN after.status_stats \ DOMAIN before.status_stats)
             + Cardinality(DOMAIN after.status_conversions
                             \ DOMAIN before.status_conversions) <= 1

\* C20: the modifiers applied so far, in the order they were applied, leave
\* the accumulator that the same multiset leaves in one fixed order, and so
\* commit to the same StatBlock from every starting block (every order of a
\* multiset is one of the sequences explored, so all orders agree); and each
\* apply_stat_type added to exactly one field or sub-map entry and left every
\* other one unchanged.
C20_OrderIndependent ==
    LET canonical == apply_all(StatAccumulator_new, CanonicalOrder(applied_mods), 1)
    IN  /\ \A start \in StartBlocks :
              apply_to(accumulator, start) = apply_to(canonical, start)
        /\ (query.fn = "apply_to" /\ query.commits = 1) =>
              query.block = apply_to(canonical, query.start)
        /\ query.fn = "apply_stat_type" =>
              OneAdditiveUpdate(query.before, accumulator, query.value)

\* three modifiers, two of them different amounts for the same conversion
\* entry, applied in another order than the fixed one, then committed onto a
\* block that already held values
C20_Witness ==
    /\ Len(applied_mods) = 3
    /\ applied_mods # CanonicalOrder(applied_mods)
    /\ applied_mods[1] = <<"ConvertPhysicalToPoison", R(10)>>
    /\ applied_mods[3] = <<"ConvertPhysicalToPoison", R(25)>>
    /\ query.fn = "apply_to"
    /\ query.commits = 1
    /\ query.start = StatBlock_equipped
    /\ query.block.status_effect_stats.conversions["Poison"]["Physical"] = Frac(7, 20)

\* the sum of the values applied for one StatType
RECURSIVE TotalFrom(_, _)
TotalFrom(stat, i) ==
    IF i > Len(applied_mods) THEN Zero
    ELSE Add(IF applied_mods[i][1] = stat THEN applied_mods[i][2] ELSE Zero,
             TotalFrom(stat, i + 1))

Total(stat) == TotalFrom(stat, 1)

Percent(stat) == Div(Total(stat), R(100))

AttributeStats ==
    {<<"strength", "AddedStrength">>, <<"dexterity", "AddedDexterity">>,
     <<"intelligence", "AddedIntelligence">>, <<"constitution", "AddedConstitution">>,
     <<"wisdom", "AddedWisdom">>, <<"charisma", "AddedCharisma">>}

ElementalResistanceStats ==
    {<<"fire_resistance", "FireResistance">>, <<"cold_resistance", "ColdResistance">>,
     <<"lightning_resistance", "LightningResistance">>}

ElementalDamageStats ==
    {<<"global_fire_damage", "IncreasedFireDamage">>,
     <<"global_cold_damage", "IncreasedColdDamage">>,
     <<"global_lightning_damage", "IncreasedLightningDamage">>}

OtherDamageStats ==
    {<<"global_physical_damage", "IncreasedPhysicalDamage">>,
     <<"global_chaos_damage", "IncreasedChaosDamage">>}

\* the first commit of the accumulator has just been made
Committed == query.fn = "apply_to" /\ query.commits = 1

\* the flat layer of a stat grew by the stat's own total plus the shared one
FlatGrewBy(pair, shared) ==
    query.block[pair[1]].flat =
        Add(query.start[pair[1]].flat, Add(Total(pair[2]), shared))

\* the increased layer of a stat grew by its own percentage plus the shared one
IncreasedGrewBy(pair, shared) ==
    query.block[pair[1]].increased =
        Add(query.start[pair[1]].increased, Add(Percent(pair[2]), shared))

\* C21 as stated: at commit AddedAllAttributes is added to each of the six
\* attributes and AllResistances to fire, cold, lightning and chaos
\* resistance, on top of the stat's own value; IncreasedElementalDamage is
\* added to the increased layer of fire, cold and lightning damage only.
C21_AsStated ==
    Committed =>
        /\ \A pair \in AttributeStats : FlatGrewBy(pair, Total("AddedAllAttributes"))
        /\ \A pair \in ElementalResistanceStats \cup {<<"chaos_resistance", "ChaosResistance">>} :
              FlatGrewBy(pair, Total("AllResistances"))
        /\ \A pair \in ElementalDamageStats :
              IncreasedGrewBy(pair, Percent("IncreasedElementalDamage"))
        /\ \A pair \in OtherDamageStats : IncreasedGrewBy(pair, Zero)

\* C21 (amended): as above, except that AllResistances is added to fire, cold
\* and lightning resistance only; chaos resistance receives its own
\* accumulated value and nothing of AllResistances.
C21_FoldAtCommit ==
    Committed =>
        /\ \A pair \in AttributeStats : FlatGrewBy(pair, Total("AddedAllAttributes"))
        /\ \A pair \in ElementalResistanceStats :
              FlatGrewBy(pair, Total("AllResistances"))
        /\ FlatGrewBy(<<"chaos_resistance", "ChaosResistance">>, Zero)
        /\ \A pair \in ElementalDamageStats :
              IncreasedGrewBy(pair, Percent("IncreasedElementalDamage"))
        /\ \A pair \in OtherDamageStats : IncreasedGrewBy(pair, Zero)

\* fire, chaos and all resistances were accumulated and committed to an empty
\* block: fire resistance holds 10 + 5, chaos resistance its own 8
C21_Witness ==
    /\ Committed
    /\ query.start = StatBlock_new
    /\ Total("FireResistance") = R(10)
    /\ Total("ChaosResistance") = R(8)
    /\ Total("AllResistances") = R(5)
    /\ query.block.fire_resistance.flat = R(15)
    /\ query.block.chaos_resistance.flat = R(8)

\* C22: apply_to overwrites what it commits, so committing the same
\* accumulator a second time to the committed block leaves the block as the
\* first commit left it (flat/increased/more layers, weapon ranges, movement
\* speed, item rarity and item quantity bonuses).
C22_AsStated ==
    (query.fn = "apply_to" /\ query.commits = 2) =>
        /\ \A f \in PlainBlockFields :
              query.block[f] = apply_to(accumulator, query.start)[f]
        /\ \A f \in StatValueFields :
              query.block[f] = apply_to(accumulator, query.start)[f]

-----------------------------------------------------------------------------
(* Properties of calculate_damage                                          *)

\* the crit chance as the specification states it
StatedCritChance(attacker, skill) ==
    LET weapon_crit_if_attack ==
            IF "Attack" \in skill.tags THEN attacker.weapon_crit_chance ELSE Zero
        sum == Add(Add(skill.base_crit_chance, weapon_crit_if_attack),
                   attacker.critical_chance.flat)
        product == Mul(Mul(sum, Add(One, attacker.critical_chance.increased)),
                       total_more_from(attacker.critical_chance.more, 1))
    IN  Max(Zero, Min(R(100), product))

\* the ranges of a call that are rolled
RolledRanges(attacker, skill) ==
    LET sources == base_sources(attacker, skill)
    IN  Cardinality({ i \in DOMAIN sources : Lt(sources[i].min, sources[i].max) })

Calculated == query.fn = "calculate_damage"

\* C23: the crit chance of calculate_damage is (skill base crit + weapon crit
\* for attack skills only + attacker flat crit) x increased x more, clamped to
\* [0, 100]; one draw, the one after the damage rolls, is compared with
\* chance / 100, so a chance of 100 always crits and a chance of 0 never
\* does; a crit multiplies every damage entry by the attacker's crit
\* multiplier plus the skill's bonus, a non-crit changes no entry.
C23_CritRoll ==
    Calculated =>
        LET chance == StatedCritChance(TheAttacker, TheSkill)
            rolled == RolledRanges(TheAttacker, TheSkill)
            multiplier == Add(compute(TheAttacker.critical_multiplier),
                              TheSkill.crit_multiplier_bonus)
        IN  /\ Len(draws) = rolled + 1
            /\ draws = SubSeq(query.rng, 1, rolled + 1)
            /\ packet.is_critical <=> Lt(draws[rolled + 1], Div(chance, R(100)))
            /\ chance = R(100) => packet.is_critical
            /\ chance = Zero => ~packet.is_critical
            /\ Len(packet.damages) = Len(stages)
            /\ \A i \in DOMAIN stages :
                  /\ packet.damages[i].damage_type = stages[i].damage_type
                  /\ packet.damages[i].amount =
                         IF packet.is_critical THEN Mul(stages[i].amount, multiplier)
                         ELSE stages[i].amount
            /\ ~packet.is_critical => packet.damages = stages

\* a crit with a chance strictly inside (0, 100), after a damage roll, that
\* scales two entries; the weapon's crit chance is part of the chance
C23_Witness ==
    /\ Calculated
    /\ packet.is_critical
    /\ Gt(StatedCritChance(TheAttacker, TheSkill), Zero)
    /\ Lt(StatedCritChance(TheAttacker, TheSkill), R(100))
    /\ "Attack" \in TheSkill.tags
    /\ Gt(TheAttacker.weapon_crit_chance, Zero)
    /\ Len(draws) = 2
    /\ Len(packet.damages) >= 2
    /\ \A i \in DOMAIN stages : Gt(packet.damages[i].amount, stages[i].amount)

\* the combined status damage as the specification states it: the sum over
\* the packet's damage entries of amount x (skill conversion + attacker conversion)
StatedStatusDamage(status) ==
    LET conv(damage_type) ==
            Add(IF <<damage_type, status>> \in DOMAIN TheSkill.status_conversions
                THEN TheSkill.status_conversions[<<damage_type, status>>] ELSE Zero,
                IF /\ status \in DOMAIN TheAttacker.status_effect_stats.conversions
                   /\ damage_type \in
                          DOMAIN TheAttacker.status_effect_stats.conversions[status]
                THEN TheAttacker.status_effect_stats.conversions[status][damage_type]
                ELSE Zero)
        RECURSIVE sum(_)
        sum(n) == IF n = 0 THEN Zero
                  ELSE Add(sum(n - 1),
                           Mul(packet.damages[n].amount,
                               conv(packet.damages[n].damage_type)))
    IN  sum(Len(packet.damages))

\* the positions of the requests for a status
Requests(status) ==
    { i \in DOMAIN packet.status_effects_to_apply :
        packet.status_effects_to_apply[i].effect_type = status }

\* C24: calculate_damage appends a pending status request for a status
\* exactly when its combined status damage, summed over the packet's entries
\* after crit scaling, is positive; there is at most one request per status,
\* each carries the skill's bonus apply-chance for its status, no conversions
\* give no request, and every amount added to the packet is positive.
C24_StatusRequests ==
    Calculated =>
        /\ \A status \in StatusEffect :
              /\ Requests(status) # {} <=> Gt(StatedStatusDamage(status), Zero)
              /\ Cardinality(Requests(status)) <= 1
              /\ \A i \in Requests(status) :
                    packet.status_effects_to_apply[i].apply_chance_increased =
                        IF status \in DOMAIN TheSkill.status_chance_increased
                        THEN TheSkill.status_chance_increased[status] ELSE Zero
        /\ \A i \in DOMAIN packet.status_effects_to_apply :
              packet.status_effects_to_apply[i].effect_type \in StatusEffect
        /\ ( /\ DOMAIN TheSkill.status_conversions = {}
             /\ DOMAIN TheAttacker.status_effect_stats.conversions = {} )
              => packet.status_effects_to_apply = <<>>
        /\ \A i \in DOMAIN stages : Gt(stages[i].amount, Zero)
        /\ \A i \in DOMAIN packet.damages : Gt(packet.damages[i].amount, Zero)

\* a critical packet with a request from the skill's conversion that carries
\* a bonus apply-chance, a request from the attacker's conversion, and no
\* request for a status that nothing converts to
C24_Witness ==
    /\ Calculated
    /\ packet.is_critical
    /\ Requests("Burn") # {}
    /\ Requests("Poison") # {}
    /\ Requests("Bleed") = {}
    /\ \E i \in Requests("Burn") :
          Gt(packet.status_effects_to_apply[i].apply_chance_increased, Zero)
    /\ Len(packet.status_effects_to_apply) = 2

\* C25: calculate_damage is a deterministic function of its arguments and of
\* the sequence of random draws: a second call with the same attacker, the
\* same skill and the same draws returns the same packet as the first, the
\* order of its damage entries and of its pending status effects included.
C25_AsStated ==
    [][ ( /\ Calculated
          /\ query'.fn = "calculate_damage"
          /\ query'.attacker = query.attacker
          /\ query'.skill = query.skill
          /\ query'.rng = query.rng )
        => packet' = packet ]_vars

\* a list of (type, amount) entries as a set, whatever its order
ByType(damages) == { <<damages[i].damage_type, damages[i].amount>> : i \in DOMAIN damages }

\* every range of the call has min >= max, so calculate_damage rolls nothing
AllDegenerate == RolledRanges(TheAttacker, TheSkill) = 0

\* every range of the call has min = max
AllExact ==
    LET sources == base_sources(TheAttacker, TheSkill)
    IN  \A i \in DOMAIN sources : sources[i].min = sources[i].max

\* the hit part of a returned DPS: the crit-expectation weight on a total
WeightedHitDps(total) ==
    LET crit_chance == Div(StatedCritChance(TheAttacker, TheSkill), R(100))
        crit_mult == IF packet.is_critical THEN packet.crit_multiplier
                     ELSE Add(compute(TheAttacker.critical_multiplier),
                              TheSkill.crit_multiplier_bonus)
        speed == Mul(IF "Attack" \in TheSkill.tags
                     THEN computed_attack_speed(TheAttacker)
                     ELSE computed_cast_speed(TheAttacker),
                     TheSkill.attack_speed_modifier)
    IN  Mul(Mul(Mul(total, Add(One, Mul(Sub(crit_mult, One), crit_chance))), speed),
            R(TheSkill.hits_per_attack))

\* the DoT part of a returned DPS for the averages
DotDps(averages) ==
    LET crit_chance == Div(StatedCritChance(TheAttacker, TheSkill), R(100))
        speed == Mul(IF "Attack" \in TheSkill.tags
                     THEN computed_attack_speed(TheAttacker)
                     ELSE computed_cast_speed(TheAttacker),
                     TheSkill.attack_speed_modifier)
    IN  skill_dot_dps(TheAttacker, TheSkill, averages, crit_chance, speed, 1)

\* the averages agree with the packet before its crit step, and the DPS is
\* that total under the crit-expectation weight, plus the DoT part
AverageConsistent ==
    /\ {"calculate_damage", "calculate_average_damage_by_type"} \subseteq query.returned
          => /\ ByType(query.average) = ByType(stages)
             /\ ~packet.is_critical => ByType(query.average) = ByType(packet.damages)
    /\ {"calculate_damage", "calculate_skill_dps"} \subseteq query.returned
          => Sub(query.dps, DotDps(stages)) = WeightedHitDps(sum_amounts(stages, 1))

\* C26 (as stated): for every attacker and skill whose ranges all have
\* min >= max, the per-type averages equal the per-type damages of a
\* non-critical calculate_damage packet, and calculate_skill_dps weights that
\* total by 1 + (crit multiplier - 1) x crit chance.
C26_AsStated == AllDegenerate => AverageConsistent

\* C26 (amended): the same for every attacker and skill whose ranges all have
\* min = max.
C26_ExactRanges == AllExact => AverageConsistent

\* exact ranges of two types with a conversion and a positive crit chance:
\* the packet, the averages and the DPS were all returned
C26_Witness ==
    /\ AllExact
    /\ Gt(StatedCritChance(TheAttacker, TheSkill), Zero)
    /\ query.returned = {"calculate_damage", "calculate_average_damage_by_type",
                         "calculate_skill_dps"}
    /\ Len(query.average) >= 2
    /\ DOMAIN TheSkill.damage_conversions # {}
    /\ Gt(query.dps, sum_amounts(query.average, 1))

-----------------------------------------------------------------------------
(* Properties of DropTableRegistry::roll                                   *)

Returned == query.fn = "roll" /\ query.outcome # RollPending

\* the roll has returned what its course prescribes: CycleDetected exactly
\* when it went below the tenth nested level, UnknownTable exactly when an
\* unregistered table was looked up, Ok otherwise, and no drops with an error
ReturnedAsPrescribed ==
    /\ Returned
    /\ query.stack = <<>>
    /\ query.deepest <= MAX_DEPTH + 1
    /\ query.outcome.tag = "CycleDetected" <=> query.deepest > MAX_DEPTH
    /\ query.outcome.tag = "UnknownTable" <=>
           (query.unregistered \/ query.table_id \notin DOMAIN TheRegistry)
    /\ query.outcome.tag = "Ok" <=>
           /\ query.deepest <= MAX_DEPTH
           /\ ~query.unregistered
           /\ query.table_id \in DOMAIN TheRegistry
    /\ query.outcome.tag # "Ok" => query.outcome.drops = <<>>
    /\ ( /\ query.registry = "cycle"
         /\ Ge(query.quantity_mult, One) )
          => query.outcome.tag = "CycleDetected"

\* the largest roll count of a sample table under a sample multiplier
MaxRollCount == 3

\* a bound on the steps an activation at a depth can still cause: its
\* return, and for each roll the iteration and the nested activation
RECURSIVE RollWork(_)
RollWork(depth) ==
    IF depth > MAX_DEPTH THEN 0
    ELSE 1 + MaxRollCount * (1 + RollWork(depth + 1))

RECURSIVE StackWork(_, _)
StackWork(stack, i) ==
    IF i > Len(stack) THEN 0
    ELSE 1 + stack[i].remaining * (1 + RollWork(stack[i].depth + 1))
           + StackWork(stack, i + 1)

\* a bound on the steps a call can still take
StepsLeft(q) ==
    IF q.fn = "none" THEN 1 + RollWork(0) ELSE StackWork(q.stack, 1)

\* a call that has not returned can take a step
CanStep(q) ==
    (q.fn = "roll" /\ q.outcome = RollPending) =>
        /\ q.stack # <<>>
        /\ q.stack[Len(q.stack)].remaining \in 0..MaxRollCount
        /\ Len(q.stack) <= MAX_DEPTH + 1
        /\ \A i \in DOMAIN q.stack : q.stack[i].depth = i - 1

\* C27: DropTableRegistry::roll always returns: every step of a call lowers
\* a bound on the steps left, and a call that has not returned can step.
\* Nested references are followed to at most 10 levels below the rolled
\* table; a roll that goes deeper returns CycleDetected and no drops, so
\* tables that reference each other with certainty give CycleDetected; an
\* unknown table id, or a selected entry whose table is not registered,
\* gives UnknownTable; a nested error is what the outer roll returns, in
\* place of the drops made so far.
C27_RollTerminates ==
    [][ /\ StepsLeft(query') < StepsLeft(query)
        /\ StepsLeft(query') >= 0
        /\ CanStep(query')
        /\ (query'.outcome # RollPending) => ReturnedAsPrescribed' ]_vars

\* two tables that reference each other, rolled with extra rolls at every
\* level: the roll went eleven levels down and returned CycleDetected
C27_Witness ==
    /\ Returned
    /\ query.registry = "cycle"
    /\ query.quantity_mult = Frac(3, 2)
    /\ query.outcome = RollErr("CycleDetected", "table_b")
    /\ query.deepest = MAX_DEPTH + 1

-----------------------------------------------------------------------------
(* The ledger of resolve_damage                                            *)

RECURSIVE SumRawFrom(_, _)
SumRawFrom(damage_taken, i) ==
    IF i > Len(damage_taken) THEN Zero
    ELSE Add(damage_taken[i].raw_amount, SumRawFrom(damage_taken, i + 1))

\* every entry's final amount is its raw amount less its mitigated amount
EntriesBalance ==
    \A i \in DOMAIN result.damage_taken :
        result.damage_taken[i].final_amount =
            Sub(result.damage_taken[i].raw_amount, result.damage_taken[i].mitigated_amount)

\* the raw amounts are the damage dealt plus the six amounts removed
LedgerBalances ==
    SumRawFrom(result.damage_taken, 1) =
        Add(result.total_damage,
        Add(result.damage_reduced_by_resists,
        Add(result.damage_reduced_by_armour,
        Add(result.damage_reduced_by_physical_dr,
        Add(result.damage_prevented_by_evasion,
        Add(result.damage_blocked, result.damage_reduced_by_dr))))))

\* C28: the CombatResult of every non-dodged resolution balances: each
\* damage_taken entry has final_amount = raw_amount - mitigated_amount, and
\* the raw amounts sum to total_damage plus the amounts removed by
\* resistance, armour, physical DR, evasion, block and global DR, for every
\* defender, negative resistance and oversized block amount included.
C28_AsStated ==
    (pc = "returned" /\ ~result.was_dodged) => (EntriesBalance /\ LedgerBalances)

-----------------------------------------------------------------------------
(* Properties of Effect::tick                                              *)

\* C29: Effect::tick(delta) terminates for every Effect and every delta >= 0,
\* a damaging ailment whose tick_rate is 0 or negative included: each pass
\* through its while loop raises time_until_tick, which ends the loop once it
\* is positive.
C29_AsStated ==
    [][ (query.at = "while" /\ query'.at = "while"
         /\ query'.iterations = query.iterations + 1)
        => Gt(query'.effect.time_until_tick, query.effect.time_until_tick) ]_vars

\* the damage of one tick of a damaging ailment
PerTick(effect) ==
    Mul(Mul(Mul(effect.dot_dps, effect.tick_rate), R(effect.stacks)),
        effect.effectiveness)

\* the number of tick instants of the effect that lie within the next `horizon`
\* seconds: the first is time_until_tick away, the others follow every tick_rate
TicksDue(effect, horizon) ==
    IF Gt(effect.time_until_tick, horizon)
    THEN 0
    ELSE Floor(Div(Sub(horizon, effect.time_until_tick), effect.tick_rate)) + 1

\* the damage due in the next delta seconds of the effect's life, which ends
\* when its remaining duration has run out
DamageDueInLife(effect, delta) ==
    IF Gt(effect.duration_remaining, Zero)
    THEN Mul(PerTick(effect),
             R(TicksDue(effect, Min(delta, effect.duration_remaining))))
    ELSE Zero

\* an effect as new_ailment made it, whose duration is a multiple of tick_rate
FreshWholeTicks(effect) ==
    /\ effect.duration_remaining = effect.total_duration
    /\ effect.time_until_tick = effect.tick_rate
    /\ Div(effect.total_duration, effect.tick_rate).d = 1

\* a single tick emits no damage for tick instants after the effect's expiry
NoDamageAfterExpiry(call) ==
    call.damage_dealt = DamageDueInLife(call.before, call.delta)

\* an effect whose duration has run out is not active, and a tick neither
\* emits damage from it nor makes it active
ExpiredStaysExpired(call, after) ==
    Le(call.before.duration_remaining, Zero) =>
        /\ ~is_active(call.before)
        /\ call.damage_dealt = Zero
        /\ ~is_active(after)

\* tick(a) followed by tick(b) emits what one tick(a + b) emits
SplitIndependent(first, second) ==
    Add(first.damage_dealt, second.damage_dealt)
        = tick(first.before, Add(first.delta, second.delta)).damage_dealt

\* two ticks that cover the whole life of a fresh effect emit
\* dot_dps * stacks * effectiveness * D
WholeLife(first, second) ==
    (/\ FreshWholeTicks(first.before)
     /\ Le(Sub(second.before.duration_remaining, second.delta), Zero)) =>
        Add(first.damage_dealt, second.damage_dealt)
            = Mul(Mul(Mul(first.before.dot_dps, R(first.before.stacks)),
                      first.before.effectiveness),
                  first.before.total_duration)

\* C30: the damage a damaging ailment emits depends only on the elapsed time,
\* not on how it is split into tick calls: tick(a) followed by tick(b) emits
\* what tick(a + b) emits, an effect whose duration D is a multiple of
\* tick_rate emits dot_dps * stacks * effectiveness * D over its life, a tick
\* whose delta exceeds the remaining duration emits nothing for the tick
\* instants after expiry, and an expired effect stays inactive and emits
\* nothing.
C30_AsStated ==
    [][ (query'.fn = "tick" /\ tick_runs(query'.before)) =>
            /\ NoDamageAfterExpiry(query')
            /\ ExpiredStaysExpired(query', defender'.effects[query'.index])
            /\ (query.fn = "tick" /\ query.index = query'.index) =>
                   /\ SplitIndependent(query, query')
                   /\ WholeLife(query, query') ]_vars

====
